---- MODULE Spec2Model ----
(***************************************************************************)
(* A model of the Zelo tree-walking interpreter: its value layer, the      *)
(* Environment chain, the evaluator (Interpreter.cpp, Value.cpp) and the   *)
(* generational collector (GarbageCollector.cpp).                          *)
(*                                                                         *)
(* The heap is a family of stores, one per cell kind. A cell is named by   *)
(* its index in its store (a shared_ptr is an index, nullptr is 0).        *)
(***************************************************************************)
EXTENDS Integers, Sequences, FiniteSets, TLC

VARIABLES
    envStore,      \* Environment cells: [values, enclosing]
    objStore,      \* ZeloObject cells: [klass, fields]
    funStore,      \* ZeloFunction cells: [declaration, closure, isConstructor, builtin, builtinArity]
    clsStore,      \* ZeloClass cells: [name, superclass, methods]
    arrStore,      \* std::vector<Value> cells
    dictStore,     \* std::unordered_map<std::string, Value> cells
    environment,   \* Interpreter::environment (the current scope)
    moduleCache,   \* ModuleSystem::moduleCache: resolved path -> module environment
    output,        \* what the built-in print has written to stdout
    ghost,         \* history: observations made while statements execute
    objects, functions, classes,                       \* GarbageCollector: tracked sets
    newGenerationObjects, oldGenerationObjects,
    newGenerationFunctions, oldGenerationFunctions,
    newGenerationClasses, oldGenerationClasses,
    markedObjects, markedFunctions, markedClasses,
    incrementalStep,   \* GarbageCollector::incrementalStep: the phase the next incremental call runs
    registered,    \* history: the cells handed to registerObject/Function/Class so far
    last           \* history: the operation that produced this state and its outcome

heapVars == <<envStore, objStore, funStore, clsStore, arrStore, dictStore>>
gcVars == <<objects, functions, classes,
            newGenerationObjects, oldGenerationObjects,
            newGenerationFunctions, oldGenerationFunctions,
            newGenerationClasses, oldGenerationClasses,
            markedObjects, markedFunctions, markedClasses, incrementalStep, registered>>
interpVars == <<environment, moduleCache, output, ghost>>
vars == <<heapVars, interpVars, gcVars, last>>

----------------------------------------------------------------------------
(* Error codes (ErrorCode.h). 0 stands for "no error". *)
TYPE_ERROR == 200
TYPE_MISMATCH == 201
UNDEFINED_VARIABLE == 202
UNDEFINED_PROPERTY == 203
INVALID_OPERATION == 205
RUNTIME_ERROR == 300

----------------------------------------------------------------------------
(* Values (Value.h): a tagged sum. Every value carries the three fields so *)
(* that values of different variants can be compared.                      *)
NullV == [t |-> "null", n |-> 0, s |-> ""]
IntV(i) == [t |-> "int", n |-> i, s |-> ""]
BoolV(b) == [t |-> "bool", n |-> IF b THEN 1 ELSE 0, s |-> ""]
StrV(str) == [t |-> "string", n |-> 0, s |-> str]
ArrV(id) == [t |-> "array", n |-> id, s |-> ""]
DictV(id) == [t |-> "dict", n |-> id, s |-> ""]
ObjV(id) == [t |-> "object", n |-> id, s |-> ""]
FunV(id) == [t |-> "function", n |-> id, s |-> ""]
ClsV(id) == [t |-> "class", n |-> id, s |-> ""]

EmptyMap == [x \in {} |-> NullV]

(* Environment() and Environment(enclosing) *)
NewEnvironment(enclosing) == [values |-> EmptyMap, enclosing |-> enclosing]

(* Environment::define: values[name] = value, in the receiver only *)
EnvDefine(store, e, name, value) ==
    [store EXCEPT ![e].values = (name :> value) @@ store[e].values]

(* Environment::assign: the first environment on the chain that has the    *)
(* name is updated; the end of the chain throws UNDEFINED_VARIABLE.        *)
RECURSIVE EnvAssignLocalMut(_, _, _, _)
EnvAssignLocalMut(store, e, name, value) ==
    IF name \in DOMAIN store[e].values
    THEN [err |-> 0, store |-> [store EXCEPT ![e].values[name] = value]]
    ELSE IF store[e].enclosing # 0
    THEN [err |-> 0, store |-> EnvDefine(store, e, name, value)]
    ELSE [err |-> UNDEFINED_VARIABLE, store |-> store]

RECURSIVE EnvAssign(_, _, _, _)
EnvAssign(store, e, name, value) ==
    IF name \in DOMAIN store[e].values
    THEN [err |-> 0, store |-> [store EXCEPT ![e].values[name] = value]]
    ELSE IF store[e].enclosing # 0
    THEN EnvAssign(store, store[e].enclosing, name, value)
    ELSE [err |-> UNDEFINED_VARIABLE, store |-> store]

(* Environment::get *)
RECURSIVE EnvGet(_, _, _)
EnvGet(store, e, name) ==
    IF name \in DOMAIN store[e].values
    THEN [err |-> 0, value |-> store[e].values[name]]
    ELSE IF store[e].enclosing # 0
    THEN EnvGet(store, store[e].enclosing, name)
    ELSE [err |-> UNDEFINED_VARIABLE, value |-> NullV]

----------------------------------------------------------------------------
(* Bounds of the Environment specification *)
MaxEnvs == 3
EnvNames == {"x", "y"}
(* The values written under a name: two for x, so that an overwritten      *)
(* binding differs from the one before, and one for y                      *)
EnvValues(name) == IF name = "x" THEN {IntV(1), IntV(2)} ELSE {IntV(1)}

NoOp == [op |-> "init", env |-> 0, name |-> "", v |-> NullV, err |-> 0]

(* What the observers of the evaluator have seen during one call of        *)
(* interpret: restored, whether every executeBlock so far returned with    *)
(* the environment it was entered with; exits, how the blocks ended and at *)
(* which nesting depth; catches, the catch handlers entered; checks, the   *)
(* arity checks made at call sites; reloaded, whether loadModule was        *)
(* entered for a file whose load was still in progress.                    *)
NoGhost == [restored |-> TRUE, exits |-> {}, depth |-> 0, catches |-> <<>>, checks |-> {},
            reloaded |-> FALSE]

InterpIdle ==
    /\ environment = 1
    /\ moduleCache = EmptyMap
    /\ output = <<>>
    /\ ghost = NoGhost

GcIdle ==
    /\ objects = {} /\ functions = {} /\ classes = {}
    /\ newGenerationObjects = {} /\ oldGenerationObjects = {}
    /\ newGenerationFunctions = {} /\ oldGenerationFunctions = {}
    /\ newGenerationClasses = {} /\ oldGenerationClasses = {}
    /\ markedObjects = {} /\ markedFunctions = {} /\ markedClasses = {}
    /\ incrementalStep = 0
    /\ registered = {}

InitEnv ==
    /\ envStore = <<NewEnvironment(0)>>
    /\ objStore = <<>> /\ funStore = <<>> /\ clsStore = <<>>
    /\ arrStore = <<>> /\ dictStore = <<>>
    /\ InterpIdle
    /\ GcIdle
    /\ last = NoOp

(* std::make_shared<Environment>(enclosing) *)
MakeEnvironment(parent) ==
    /\ Len(envStore) < MaxEnvs
    /\ envStore' = Append(envStore, NewEnvironment(parent))
    /\ last' = [op |-> "new", env |-> Len(envStore) + 1, name |-> "", v |-> NullV, err |-> 0]
    /\ UNCHANGED <<objStore, funStore, clsStore, arrStore, dictStore, interpVars, gcVars>>

Define(e, name, value) ==
    /\ envStore' = EnvDefine(envStore, e, name, value)
    /\ last' = [op |-> "define", env |-> e, name |-> name, v |-> value, err |-> 0]
    /\ UNCHANGED <<objStore, funStore, clsStore, arrStore, dictStore, interpVars, gcVars>>

Assign(e, name, value) ==
    LET r == EnvAssign(envStore, e, name, value) IN
    /\ envStore' = r.store
    /\ last' = [op |-> "assign", env |-> e, name |-> name, v |-> value, err |-> r.err]
    /\ UNCHANGED <<objStore, funStore, clsStore, arrStore, dictStore, interpVars, gcVars>>

NextEnv ==
    \/ \E p \in 1..Len(envStore) : MakeEnvironment(p)
    \/ \E e \in 1..Len(envStore), name \in EnvNames :
         \E value \in EnvValues(name) : Define(e, name, value)
    \/ \E e \in 1..Len(envStore), name \in EnvNames :
         \E value \in EnvValues(name) : Assign(e, name, value)

SpecEnv == InitEnv /\ [][NextEnv]_vars

----------------------------------------------------------------------------
(* The enclosing chain of e, innermost first *)
RECURSIVE Chain(_, _)
Chain(store, e) == IF e = 0 THEN <<>> ELSE <<e>> \o Chain(store, store[e].enclosing)

Defining(store, e, name) ==
    {i \in 1..Len(Chain(store, e)) : name \in DOMAIN store[Chain(store, e)[i]].values}

(* Every binding other than (target, name) is the same in both stores *)
SameExcept(s1, s2, target, name) ==
    /\ Len(s1) = Len(s2)
    /\ \A e \in 1..Len(s1) :
        /\ s1[e].enclosing = s2[e].enclosing
        /\ DOMAIN s1[e].values = DOMAIN s2[e].values
        /\ \A n \in DOMAIN s1[e].values :
             (e # target \/ n # name) => s1[e].values[n] = s2[e].values[n]

(* C7: Environment::assign changes exactly the binding of the innermost    *)
(* environment on the receiver's chain that defines the name, and fails    *)
(* with UNDEFINED_VARIABLE leaving every environment unchanged when none   *)
(* does; Environment::define changes only the receiver's own map, so no    *)
(* other environment (the enclosing ones included) changes.                *)
C7_AssignDefineFrame ==
    [][ /\ last'.op = "assign" =>
            LET d == Defining(envStore, last'.env, last'.name) IN
            IF d = {}
            THEN last'.err = UNDEFINED_VARIABLE /\ envStore' = envStore
            ELSE LET target == Chain(envStore, last'.env)[CHOOSE i \in d : \A j \in d : i <= j] IN
                 /\ last'.err = 0
                 /\ envStore'[target].values[last'.name] = last'.v
                 /\ SameExcept(envStore, envStore', target, last'.name)
        /\ last'.op = "define" =>
            /\ Len(envStore') = Len(envStore)
            /\ envStore'[last'.env].values[last'.name] = last'.v
            /\ \A e \in 1..Len(envStore) :
                 /\ e # last'.env => envStore'[e] = envStore[e]
                 /\ envStore'[e].enclosing = envStore[e].enclosing
                 /\ \A n \in DOMAIN envStore[e].values :
                      n # last'.name => /\ n \in DOMAIN envStore'[e].values
                                        /\ envStore'[e].values[n] = envStore[e].values[n]
      ]_vars

(* An assignment through a child scope reached a binding of an enclosing   *)
(* scope while another scope of the program holds the same name.           *)
C7_Witness ==
    /\ last.op = "assign" /\ last.err = 0
    /\ last.name \notin DOMAIN envStore[last.env].values
    /\ \E e \in 1..Len(envStore) :
         e # last.env /\ last.name \in DOMAIN envStore[e].values
                      /\ envStore[e].values[last.name] # last.v

----------------------------------------------------------------------------
(* GarbageCollector (GarbageCollector.h / GarbageCollector.cpp)            *)

NEW_GENERATION_THRESHOLD == 1000

Range(f) == {f[x] : x \in DOMAIN f}

NoMarks == [o |-> {}, f |-> {}, c |-> {}]

(* GarbageCollector::mark and ::markEnvironment. m holds markedObjects,    *)
(* markedFunctions and markedClasses (fields o, f, c). The elements of a   *)
(* container are visited in the container's order; the resulting mark sets *)
(* do not depend on it.                                                    *)
RECURSIVE mark(_, _), markValues(_, _), markEnvironment(_, _)
mark(value, m) ==
    IF value.t = "object"
    THEN IF value.n \in m.o THEN m
         ELSE markValues(Range(objStore[value.n].fields), [m EXCEPT !.o = @ \cup {value.n}])
    ELSE IF value.t = "function"
    THEN IF value.n \in m.f THEN m
         ELSE IF funStore[value.n].closure # 0
              THEN markEnvironment(funStore[value.n].closure, [m EXCEPT !.f = @ \cup {value.n}])
              ELSE [m EXCEPT !.f = @ \cup {value.n}]
    ELSE IF value.t = "class"
    THEN IF value.n \in m.c THEN m
         ELSE LET m1 == markValues({FunV(id) : id \in Range(clsStore[value.n].methods)},
                                   [m EXCEPT !.c = @ \cup {value.n}])
              IN IF clsStore[value.n].superclass # 0
                 THEN mark(ClsV(clsStore[value.n].superclass), m1)
                 ELSE m1
    ELSE IF value.t = "array" THEN markValues(Range(arrStore[value.n]), m)
    ELSE IF value.t = "dict" THEN markValues(Range(dictStore[value.n]), m)
    ELSE m

markValues(vs, m) ==
    IF vs = {} THEN m
    ELSE LET v == CHOOSE x \in vs : TRUE
             (* the marks after v, computed before the next element is visited *)
             marked == mark(v, m)
         IN IF marked \in {m} THEN markValues(vs \ {v}, m)
            ELSE markValues(vs \ {v}, marked)

markEnvironment(env, m) ==
    IF env = 0 THEN m
    ELSE markEnvironment(envStore[env].enclosing, markValues(Range(envStore[env].values), m))

(* The collector's sets as one record, so that the collection routines can *)
(* be composed as the code composes them.                                  *)
GcState ==
    [objects |-> objects, functions |-> functions, classes |-> classes,
     newGenerationObjects |-> newGenerationObjects,
     oldGenerationObjects |-> oldGenerationObjects,
     newGenerationFunctions |-> newGenerationFunctions,
     oldGenerationFunctions |-> oldGenerationFunctions,
     newGenerationClasses |-> newGenerationClasses,
     oldGenerationClasses |-> oldGenerationClasses,
     markedObjects |-> markedObjects, markedFunctions |-> markedFunctions,
     markedClasses |-> markedClasses, incrementalStep |-> incrementalStep]

SetGc(g) ==
    /\ objects' = g.objects /\ functions' = g.functions /\ classes' = g.classes
    /\ newGenerationObjects' = g.newGenerationObjects
    /\ oldGenerationObjects' = g.oldGenerationObjects
    /\ newGenerationFunctions' = g.newGenerationFunctions
    /\ oldGenerationFunctions' = g.oldGenerationFunctions
    /\ newGenerationClasses' = g.newGenerationClasses
    /\ oldGenerationClasses' = g.oldGenerationClasses
    /\ markedObjects' = g.markedObjects /\ markedFunctions' = g.markedFunctions
    /\ markedClasses' = g.markedClasses
    /\ incrementalStep' = g.incrementalStep

(* GarbageCollector::sweep: erases the unmarked cells from the tracked     *)
(* sets (and from no other set), then clears the mark sets.                *)
sweep(g) ==
    [g EXCEPT !.objects = g.objects \cap g.markedObjects,
              !.functions = g.functions \cap g.markedFunctions,
              !.classes = g.classes \cap g.markedClasses,
              !.markedObjects = {}, !.markedFunctions = {}, !.markedClasses = {}]

(* A minor collection that promotes the marked young cells and leaves the  *)
(* unmarked ones tracked                                                   *)
collectNewGenerationKeepTrackedMut(g, roots) ==
    LET m == markEnvironment(roots, NoMarks)
        g1 == [g EXCEPT
                !.markedObjects = m.o, !.markedFunctions = m.f, !.markedClasses = m.c,
                !.oldGenerationObjects = g.oldGenerationObjects \cup (g.newGenerationObjects \cap m.o),
                !.newGenerationObjects = {},
                !.oldGenerationFunctions = g.oldGenerationFunctions \cup (g.newGenerationFunctions \cap m.f),
                !.newGenerationFunctions = {},
                !.oldGenerationClasses = g.oldGenerationClasses \cup (g.newGenerationClasses \cap m.c),
                !.newGenerationClasses = {}]
    IN [g |-> g1, result |-> Cardinality(g1.newGenerationObjects) < NEW_GENERATION_THRESHOLD]

(* GarbageCollector::collectNewGeneration: [g |-> sets after, result |-> return value] *)
collectNewGeneration(g, roots) ==
    LET m == markEnvironment(roots, NoMarks)
        g1 == [g EXCEPT
                !.markedObjects = m.o, !.markedFunctions = m.f, !.markedClasses = m.c,
                !.objects = g.objects \ (g.newGenerationObjects \ m.o),
                !.oldGenerationObjects = g.oldGenerationObjects \cup (g.newGenerationObjects \cap m.o),
                !.newGenerationObjects = {},
                !.functions = g.functions \ (g.newGenerationFunctions \ m.f),
                !.oldGenerationFunctions = g.oldGenerationFunctions \cup (g.newGenerationFunctions \cap m.f),
                !.newGenerationFunctions = {},
                !.classes = g.classes \ (g.newGenerationClasses \ m.c),
                !.oldGenerationClasses = g.oldGenerationClasses \cup (g.newGenerationClasses \cap m.c),
                !.newGenerationClasses = {}]
    IN [g |-> g1, result |-> Cardinality(g1.newGenerationObjects) < NEW_GENERATION_THRESHOLD]

(* GarbageCollector::collectOldGeneration *)
collectOldGeneration(g, roots) ==
    LET m == markEnvironment(roots, NoMarks)
    IN sweep([g EXCEPT !.markedObjects = m.o, !.markedFunctions = m.f, !.markedClasses = m.c])

(* GarbageCollector::collectGarbage *)
collectGarbage(g, roots) ==
    LET r == collectNewGeneration(g, roots)
    IN IF ~r.result THEN collectOldGeneration(r.g, roots) ELSE r.g

(* const size_t stepsPerCycle in collectGarbageIncremental *)
stepsPerCycle == 10

(* GarbageCollector::markIncremental: how many tracked instances the step  *)
(* visits, endIdx - startIdx when the range is not empty                   *)
sliceSize(g, currentStep, totalSteps) ==
    LET totalObjects == Cardinality(g.objects)
        objectsPerStep == totalObjects \div totalSteps
        startIdx == currentStep * objectsPerStep
        endIdx == IF startIdx + objectsPerStep < totalObjects
                  THEN startIdx + objectsPerStep ELSE totalObjects
    IN IF endIdx > startIdx THEN endIdx - startIdx ELSE 0

(* The instances at positions startIdx..endIdx-1 of the iteration of the   *)
(* unordered_set `objects`. The order of that iteration is unspecified:    *)
(* any sliceSize tracked instances can be the ones at these positions.     *)
Slices(g) ==
    IF 0 < g.incrementalStep /\ g.incrementalStep < stepsPerCycle
    THEN {slice \in SUBSET g.objects :
              Cardinality(slice) = sliceSize(g, g.incrementalStep, stepsPerCycle)}
    ELSE {{}}

(* GarbageCollector::markIncremental and ::markObjectReferences: each      *)
(* instance of the slice is marked as mark marks an instance value         *)
markIncremental(g, slice) ==
    LET m == markValues({ObjV(o) : o \in slice},
                        [o |-> g.markedObjects, f |-> g.markedFunctions,
                         c |-> g.markedClasses])
    IN [g EXCEPT !.markedObjects = m.o, !.markedFunctions = m.f, !.markedClasses = m.c]

(* collectGarbageIncremental whose marking steps go on one call longer *)
collectGarbageIncrementalLateSweepMut(g, roots, slice) ==
    IF g.incrementalStep = 0
    THEN LET m == markEnvironment(roots, NoMarks)
         IN [g EXCEPT !.markedObjects = m.o, !.markedFunctions = m.f,
                      !.markedClasses = m.c, !.incrementalStep = @ + 1]
    ELSE IF g.incrementalStep <= stepsPerCycle
    THEN [markIncremental(g, slice) EXCEPT !.incrementalStep = @ + 1]
    ELSE [sweep(g) EXCEPT !.incrementalStep = 0]

(* GarbageCollector::collectGarbageIncremental *)
collectGarbageIncremental(g, roots, slice) ==
    IF g.incrementalStep = 0
    THEN LET m == markEnvironment(roots, NoMarks)
         IN [g EXCEPT !.markedObjects = m.o, !.markedFunctions = m.f,
                      !.markedClasses = m.c, !.incrementalStep = @ + 1]
    ELSE IF g.incrementalStep < stepsPerCycle
    THEN [markIncremental(g, slice) EXCEPT !.incrementalStep = @ + 1]
    ELSE [sweep(g) EXCEPT !.incrementalStep = 0]

----------------------------------------------------------------------------
(* The collector specification: a heap of two instances, one function      *)
(* (whose closure is a child scope of the globals and holds the second     *)
(* instance), a class with a method table and a superclass, and an array   *)
(* holding a dict that holds the first instance. The program registers the *)
(* cells, rebinds the global x and stores into the field `self` of the     *)
(* first instance; the roots are the globals (Interpreter::collectGarbage  *)
(* passes `globals`).                                                      *)
Globals == 1

GcRootValues == {NullV, ObjV(1), ClsV(1), ArrV(1)}
GcFieldValues == {ObjV(1), ObjV(2)}

InitGC ==
    /\ envStore = << [values |-> ("x" :> NullV), enclosing |-> 0],
                     [values |-> ("n" :> ObjV(2)), enclosing |-> Globals] >>
    /\ objStore = << [klass |-> 1, fields |-> EmptyMap],
                     [klass |-> 1, fields |-> EmptyMap] >>
    /\ funStore = << [declaration |-> 1, closure |-> 2, isConstructor |-> FALSE,
                      builtin |-> "", builtinArity |-> 0] >>
    /\ clsStore = << [name |-> "K", superclass |-> 2, methods |-> ("m" :> 1)],
                     [name |-> "Base", superclass |-> 0, methods |-> EmptyMap] >>
    /\ arrStore = << <<DictV(1)>> >>
    /\ dictStore = << ("k" :> ObjV(1)) >>
    /\ InterpIdle
    /\ GcIdle
    /\ last = NoOp

GcOp(name) == [op |-> name, env |-> 0, name |-> "", v |-> NullV, err |-> 0]

(* GarbageCollector::registerObject *)
RegisterObject(o) ==
    /\ ObjV(o) \notin registered
    /\ newGenerationObjects' = newGenerationObjects \cup {o}
    /\ objects' = objects \cup {o}
    /\ registered' = registered \cup {ObjV(o)}
    /\ last' = GcOp("registerObject")
    /\ UNCHANGED <<heapVars, interpVars, functions, classes, oldGenerationObjects,
                   newGenerationFunctions, oldGenerationFunctions,
                   newGenerationClasses, oldGenerationClasses,
                   markedObjects, markedFunctions, markedClasses, incrementalStep>>

(* GarbageCollector::registerFunction *)
RegisterFunction(f) ==
    /\ FunV(f) \notin registered
    /\ newGenerationFunctions' = newGenerationFunctions \cup {f}
    /\ functions' = functions \cup {f}
    /\ registered' = registered \cup {FunV(f)}
    /\ last' = GcOp("registerFunction")
    /\ UNCHANGED <<heapVars, interpVars, objects, classes,
                   newGenerationObjects, oldGenerationObjects, oldGenerationFunctions,
                   newGenerationClasses, oldGenerationClasses,
                   markedObjects, markedFunctions, markedClasses, incrementalStep>>

(* GarbageCollector::registerClass *)
RegisterClass(k) ==
    /\ ClsV(k) \notin registered
    /\ newGenerationClasses' = newGenerationClasses \cup {k}
    /\ classes' = classes \cup {k}
    /\ registered' = registered \cup {ClsV(k)}
    /\ last' = GcOp("registerClass")
    /\ UNCHANGED <<heapVars, interpVars, objects, functions,
                   newGenerationObjects, oldGenerationObjects,
                   newGenerationFunctions, oldGenerationFunctions, oldGenerationClasses,
                   markedObjects, markedFunctions, markedClasses, incrementalStep>>

(* The program rebinds the global x (Environment::define on the globals) *)
GlobalDefine(value) ==
    /\ envStore' = EnvDefine(envStore, Globals, "x", value)
    /\ last' = GcOp("define")
    /\ UNCHANGED <<objStore, funStore, clsStore, arrStore, dictStore, interpVars, gcVars>>

(* ZeloObject::set for a class without __setattr__: fields[name] = value *)
FieldSet(o, value) ==
    /\ objStore' = [objStore EXCEPT ![o].fields = ("self" :> value) @@ @]
    /\ last' = GcOp("set")
    /\ UNCHANGED <<envStore, funStore, clsStore, arrStore, dictStore, interpVars, gcVars>>

(* GarbageCollector::collectGarbage(globals) *)
CollectGarbage ==
    /\ SetGc(collectGarbage(GcState, Globals))
    /\ last' = GcOp("collectGarbage")
    /\ UNCHANGED <<heapVars, interpVars, registered>>

(* GarbageCollector::collectOldGeneration(globals): the major collection *)
CollectOldGeneration ==
    /\ SetGc(collectOldGeneration(GcState, Globals))
    /\ last' = GcOp("collectOldGeneration")
    /\ UNCHANGED <<heapVars, interpVars, registered>>

NextGC ==
    \/ \E o \in 1..Len(objStore) : RegisterObject(o)
    \/ \E f \in 1..Len(funStore) : RegisterFunction(f)
    \/ \E k \in 1..Len(clsStore) : RegisterClass(k)
    \/ \E value \in GcRootValues : GlobalDefine(value)
    \/ \E value \in GcFieldValues : FieldSet(1, value)
    \/ CollectGarbage

SpecGC == InitGC /\ [][NextGC]_vars

(* The same program, where the major collection also runs on its own *)
NextMajor == NextGC \/ CollectOldGeneration

SpecMajor == InitGC /\ [][NextMajor]_vars

----------------------------------------------------------------------------
(* Reachability by the rules of the collector's description: the values a  *)
(* cell or an environment refers to directly, closed under iteration.      *)
EnvNode(e) == [t |-> "environment", n |-> e, s |-> ""]

Successors(v) ==
    IF v.t = "environment"
    THEN Range(envStore[v.n].values)
         \cup (IF envStore[v.n].enclosing # 0 THEN {EnvNode(envStore[v.n].enclosing)} ELSE {})
    ELSE IF v.t = "object" THEN Range(objStore[v.n].fields)
    ELSE IF v.t = "function"
    THEN (IF funStore[v.n].closure # 0 THEN {EnvNode(funStore[v.n].closure)} ELSE {})
    ELSE IF v.t = "class"
    THEN {FunV(id) : id \in Range(clsStore[v.n].methods)}
         \cup (IF clsStore[v.n].superclass # 0 THEN {ClsV(clsStore[v.n].superclass)} ELSE {})
    ELSE IF v.t = "array" THEN Range(arrStore[v.n])
    ELSE IF v.t = "dict" THEN Range(dictStore[v.n])
    ELSE {}

RECURSIVE Closure(_)
Closure(S) ==
    LET T == S \cup UNION {Successors(v) : v \in S}
    IN IF T = S THEN S ELSE Closure(T)

Reachable == Closure({EnvNode(Globals)})

TrackedCells ==
    {ObjV(o) : o \in objects} \cup {FunV(f) : f \in functions} \cup {ClsV(k) : k \in classes}

(* C1: when collectGarbage(roots) returns, every tracked instance,         *)
(* function and class is reachable from the roots.                         *)
C1_TrackedReachableAfterCollect ==
    last.op = "collectGarbage" => TrackedCells \subseteq Reachable

(* C3: after a major collection, an instance that refers to itself through *)
(* a field and is unreachable from the roots is in no set of the           *)
(* collector: not tracked, not in the young and not in the old generation. *)
C3_CycleReclaimedByMajor ==
    last.op = "collectOldGeneration" =>
        \A o \in 1..Len(objStore) :
            ( /\ "self" \in DOMAIN objStore[o].fields
              /\ objStore[o].fields["self"] = ObjV(o)
              /\ ObjV(o) \notin Reachable )
            => o \notin (objects \cup newGenerationObjects \cup oldGenerationObjects)

----------------------------------------------------------------------------
(* The abstract syntax (AST.h). A node is a record tagged by k; a function *)
(* declaration is named by its index in FuncDecls, a module by its index   *)
(* in Modules (the file the resolved path names).                          *)
Lit(v) == [k |-> "literal", value |-> v]
Num(i) == Lit(IntV(i))
Str(str) == Lit(StrV(str))
Id(name) == [k |-> "identifier", name |-> name]
Binary(l, op, r) == [k |-> "binary", left |-> l, op |-> op, right |-> r]
ArrayE(elems) == [k |-> "array", elements |-> elems]
CallE(callee, args) == [k |-> "call", callee |-> callee, arguments |-> args]
Member(obj, prop) == [k |-> "member", object |-> obj, property |-> prop]
AssignE(target, value) == [k |-> "assign", target |-> target, op |-> "=", value |-> value]
(* AssignExpr(target, op, value): the parser keeps the operator token *)
AssignOp(target, op, value) == [k |-> "assign", target |-> target, op |-> op, value |-> value]
(* a child expression that is absent (a null ExprPtr) *)
NoExpr == [k |-> "none"]
Slice(obj, start, stop, step) ==
    [k |-> "slice", object |-> obj, start |-> start, stop |-> stop, step |-> step]

Break == [k |-> "break"]
Continue == [k |-> "continue"]
ExprS(e) == [k |-> "expr", expression |-> e]
Block(stmts) == [k |-> "block", statements |-> stmts]
VarDecl(name, init) ==
    [k |-> "var", name |-> name, hasInitializer |-> TRUE, initializer |-> init, isConst |-> FALSE]
ConstDecl(name, init) ==
    [k |-> "var", name |-> name, hasInitializer |-> TRUE, initializer |-> init, isConst |-> TRUE]
FunctionDecl(d) == [k |-> "function", decl |-> d]
ClassDecl(name, superclass, methods) ==
    [k |-> "class", name |-> name, superclass |-> superclass, body |-> methods]
If(c, t) == [k |-> "if", condition |-> c, thenBranch |-> t, hasElse |-> FALSE, elseBranch |-> Break]
IfElse(c, t, e) == [k |-> "if", condition |-> c, thenBranch |-> t, hasElse |-> TRUE, elseBranch |-> e]
While(c, body) == [k |-> "while", condition |-> c, body |-> body]
For(variable, iterable, body) ==
    [k |-> "for", variable |-> variable, iterable |-> iterable, body |-> body]
Return(e) == [k |-> "return", hasValue |-> TRUE, value |-> e]
ReturnNothing == [k |-> "return", hasValue |-> FALSE, value |-> Lit(NullV)]
Import(m) == [k |-> "import", moduleName |-> m]
Export(names) == [k |-> "export", exports |-> names]
TryCatch(tryBlock, catchVar, catchBlock) ==
    [k |-> "try", tryBlock |-> tryBlock, catchVar |-> catchVar, catchBlock |-> catchBlock]
Throw(e) == [k |-> "throw", expression |-> e]

(* Shorthands used by the programs below *)
Set(name, e) == ExprS(AssignE(Id(name), e))
Note(str) == Set("t", Binary(Id("t"), "+", Str(str)))
Call0(name) == CallE(Id(name), <<>>)

----------------------------------------------------------------------------
(* The function declarations of the programs (FunctionDeclStmt)            *)
Decl(name, parameters, body) == [name |-> name, parameters |-> parameters, body |-> body]

FuncDecls == <<
    (* 1 *) Decl("make", <<>>, << VarDecl("n", Num(0)), FunctionDecl(2), Return(Id("inc")) >>),
    (* 2 *) Decl("inc", <<>>, << Set("n", Binary(Id("n"), "+", Num(1))), Return(Id("n")) >>),
    (* 3 *) Decl("m", <<>>, << Return(Member(Id("this"), "v")) >>),
    (* 4 *) Decl("setc", <<>>, << Set("c", Num(2)) >>),
    (* 5 *) Decl("boom", <<>>, << Note("f"), Block(<< Throw(Str("boom")) >>), Note("x") >>),
    (* 6 *) Decl("id", <<"a">>, << Return(Id("a")) >>),
    (* 7 *) Decl("find", <<>>,
                 << For("i", ArrayE(<<Num(1), Num(2)>>), Block(<<
                        While(Lit(BoolV(TRUE)), Block(<<
                            Note("w"),
                            If(Binary(Id("i"), "==", Num(1)), Return(Num(7))) >>)),
                        Note("x") >>)),
                    Note("y") >>),
    (* 8 *) Decl("ret", <<>>,
                 << TryCatch(Block(<< Return(Num(1)) >>), "e", Block(<< Note("c") >>)),
                    Note("x") >>),
    (* 9 *) Decl("stop", <<>>, << Note("s"), Break, Note("x") >>),
    (* 10 *) Decl("skip", <<>>, << Note("k"), Continue, Note("x") >>)
>>

(* The module files (ModuleSystem::loadModule reads and parses them) *)
Modules == <<
    (* 1 *) << VarDecl("mv", Num(5)), Block(<< VarDecl("inner", Num(1)) >>) >>,
    (* 2 *) << VarDecl("mw", Num(6)), Block(<< Throw(Str("load")) >>) >>,
    (* 3: loc __exports__ = 0; loc ev = 7; export {ev}; *)
            << VarDecl("__exports__", Num(0)), VarDecl("ev", Num(7)), Export(<<"ev">>) >>,
    (* 4: import "m1"; { throw "late"; } *)
            << Import(1), Block(<< Throw(Str("late")) >>) >>,
    (* 5: import "m6"; loc a5 = 1; *)
            << Import(6), VarDecl("a5", Num(1)) >>,
    (* 6: import "m5"; loc b6 = 1; *)
            << Import(5), VarDecl("b6", Num(1)) >>
>>

----------------------------------------------------------------------------
(* The evaluator. A visitor takes the interpreter state st and returns the *)
(* state after it: st.sig tells how it ended ("normal", or the exception   *)
(* in flight: "error" for RuntimeError with st.err and st.msg, "return"    *)
(* for ReturnException with st.value, "break" and "continue" for the       *)
(* thrown BreakStmt and ContinueStmt, "crash" for a null dereference), and *)
(* st.value is the value of the expression evaluated last.                 *)

Fail(st, code, message) == [st EXCEPT !.sig = "error", !.err = code, !.msg = message]

(* RuntimeError::fromCode(code, message, line): what() is the message *)
RuntimeErrorFromCode(st, code, message) == Fail(st, code, message)

Yield(st, v) == [st EXCEPT !.value = v]

(* isTruthy (Value.cpp) *)
isTruthy(value) ==
    IF value.t = "null" THEN FALSE
    ELSE IF value.t = "bool" THEN value.n = 1
    ELSE TRUE

(* isEqual (Value.cpp), on the variants of the model *)
RECURSIVE isEqual(_, _, _), isEqualFrom(_, _, _, _)
isEqual(st, a, b) ==
    IF a.t = "null" /\ b.t = "null" THEN TRUE
    ELSE IF a.t = "null" \/ b.t = "null" THEN FALSE
    ELSE IF a.t = "int" /\ b.t = "int" THEN a.n = b.n
    ELSE IF a.t = "bool" /\ b.t = "bool" THEN a.n = b.n
    ELSE IF a.t = "string" /\ b.t = "string" THEN a.s = b.s
    ELSE IF a.t = "array" /\ b.t = "array"
    THEN /\ Len(st.arrStore[a.n]) = Len(st.arrStore[b.n])
         /\ isEqualFrom(st, st.arrStore[a.n], st.arrStore[b.n], 1)
    ELSE IF a.t = "object" /\ b.t = "object" THEN a.n = b.n
    ELSE FALSE

isEqualFrom(st, xs, ys, i) ==
    IF i > Len(xs) THEN TRUE
    ELSE isEqual(st, xs[i], ys[i]) /\ isEqualFrom(st, xs, ys, i + 1)

(* valueToString (Value.cpp), on the variants of the model *)
RECURSIVE valueToString(_, _), elementsToString(_, _, _)
valueToString(st, value) ==
    IF value.t = "null" THEN "null"
    ELSE IF value.t = "int"
    THEN (IF value.n < 0 THEN "-" \o ToString(0 - value.n) ELSE ToString(value.n))
    ELSE IF value.t = "bool" THEN (IF value.n = 1 THEN "true" ELSE "false")
    ELSE IF value.t = "string" THEN value.s
    ELSE IF value.t = "array" THEN "[" \o elementsToString(st, st.arrStore[value.n], 1) \o "]"
    ELSE IF value.t = "object"
    THEN "<object " \o st.clsStore[st.objStore[value.n].klass].name \o ">"
    ELSE IF value.t = "function" THEN "<function>"
    ELSE IF value.t = "class" THEN "<class " \o st.clsStore[value.n].name \o ">"
    ELSE "unknown"

elementsToString(st, xs, i) ==
    IF i > Len(xs) THEN ""
    ELSE (IF i > 1 THEN ", " ELSE "") \o valueToString(st, xs[i])
         \o elementsToString(st, xs, i + 1)

(* ZeloClass::findMethod: the class's own table, then the superclass *)
RECURSIVE findMethod(_, _, _)
findMethod(st, k, name) ==
    IF name \in DOMAIN st.clsStore[k].methods THEN st.clsStore[k].methods[name]
    ELSE IF st.clsStore[k].superclass # 0 THEN findMethod(st, st.clsStore[k].superclass, name)
    ELSE 0

(* ZeloFunction::arity: the declared parameters; a built-in returns the    *)
(* arity given to BuiltinFunctions::defineFunction.                        *)
ZeloFunctionArity(st, f) ==
    IF st.funStore[f].declaration = 0 THEN st.funStore[f].builtinArity
    ELSE Len(FuncDecls[st.funStore[f].declaration].parameters)

(* ZeloClass::arity *)
ZeloClassArity(st, k) ==
    IF findMethod(st, k, "__init__") = 0 THEN 0
    ELSE ZeloFunctionArity(st, findMethod(st, k, "__init__"))

(* The conversion of an int to size_t in `arguments.size() != arity()`:    *)
(* i mod 2^64, written <<q, r>> for q * 2^64 + r.                          *)
ToSizeT(i) == IF i >= 0 THEN <<0, i>> ELSE <<1, i>>

(* Binding that defines `this` in the method's own closure and returns a   *)
(* function over that closure                                              *)
BoundMethodAliasMut(st, method, instance, isConstructor) ==
    LET f == Len(st.funStore) + 1
    IN [st EXCEPT !.envStore = EnvDefine(@, st.funStore[method].closure, "this", ObjV(instance)),
                  !.funStore = Append(@, [declaration |-> st.funStore[method].declaration,
                                          closure |-> st.funStore[method].closure,
                                          isConstructor |-> isConstructor,
                                          builtin |-> "", builtinArity |-> 0]),
                  !.value = FunV(f)]

(* std::make_shared<ZeloFunction>(declaration, make_shared<Environment>(   *)
(* method->closure)) followed by closure->define("this", instance): the    *)
(* state with the two new cells; st.value is the new function.             *)
BoundMethod(st, method, instance, isConstructor) ==
    LET e == Len(st.envStore) + 1
        f == Len(st.funStore) + 1
        envs == EnvDefine(Append(st.envStore, NewEnvironment(st.funStore[method].closure)),
                          e, "this", ObjV(instance))
    IN [st EXCEPT !.envStore = envs,
                  !.funStore = Append(@, [declaration |-> st.funStore[method].declaration,
                                          closure |-> e, isConstructor |-> isConstructor,
                                          builtin |-> "", builtinArity |-> 0]),
                  !.value = FunV(f)]

(* ZeloFunction::bind(instance), used by ZeloClass::call *)
ZeloFunctionBind(st, method, instance) ==
    BoundMethod(st, method, instance, st.funStore[method].isConstructor)

(* What a caller of executeBlock sees: the scope before and after it *)
ObserveBlock(before, after) ==
    [after EXCEPT !.g.restored = @ /\ (after.environment = before.environment),
                  !.g.exits = @ \cup {<<after.sig, before.g.depth + 1>>},
                  !.g.depth = before.g.depth]

Enter(st) == [st EXCEPT !.g.depth = @ + 1]

(* BuiltinFunctions::print, ::type and ::minFunc *)
RECURSIVE JoinArgs(_, _, _), MinFrom(_, _, _, _)
JoinArgs(st, args, i) ==
    IF i > Len(args) THEN ""
    ELSE (IF i > 1 THEN " " ELSE "") \o valueToString(st, args[i]) \o JoinArgs(st, args, i + 1)

MinFrom(st, args, i, minValue) ==
    IF i > Len(args) THEN Yield(st, minValue)
    ELSE IF minValue.t = "int" /\ args[i].t = "int"
    THEN MinFrom(st, args, i + 1, IF args[i].n < minValue.n THEN args[i] ELSE minValue)
    ELSE RuntimeErrorFromCode(st, TYPE_ERROR, "min() arguments must be numbers")

TypeName(value) ==
    IF value.t \in {"null", "int", "bool", "string", "array", "dict", "object", "function", "class"}
    THEN value.t ELSE "unknown"

BuiltinCall(st, name, args) ==
    IF name = "print"
    THEN Yield([st EXCEPT !.output = Append(@, JoinArgs(st, args, 1))], NullV)
    ELSE IF name = "type"
    THEN IF Len(args) # 1
         THEN RuntimeErrorFromCode(st, TYPE_ERROR, "type() expects exactly 1 argument")
         ELSE Yield(st, StrV(TypeName(args[1])))
    ELSE IF Len(args) = 0
         THEN RuntimeErrorFromCode(st, TYPE_ERROR, "min() expects at least 1 argument")
         ELSE MinFrom(st, args, 2, args[1])

(* for (i < parameters.size()) environment->define(parameters[i], ...) *)
RECURSIVE BindParameters(_, _, _, _, _)
BindParameters(store, e, parameters, arguments, i) ==
    IF i > Len(parameters) THEN store
    ELSE BindParameters(EnvDefine(store, e, parameters[i],
                                  IF i <= Len(arguments) THEN arguments[i] ELSE NullV),
                        e, parameters, arguments, i + 1)

RECURSIVE evaluate(_, _), evaluateAll(_, _, _, _), execute(_, _), executeAll(_, _, _),
          executeBlock(_, _, _), ZeloFunctionCall(_, _, _), ZeloClassCall(_, _, _),
          ZeloObjectGet(_, _, _), ZeloObjectSet(_, _, _, _),
          visitBinaryExpr(_, _), visitCallExpr(_, _), visitAssignExpr(_, _),
          visitWhileStmt(_, _), visitForStmt(_, _), ForFrom(_, _, _, _),
          visitTryCatchStmt(_, _), visitClassDeclStmt(_, _), requireModule(_, _),
          loadModule(_, _), accept(_, _)

(* Interpreter::evaluate: expr->accept *)
evaluate(expr, st) == accept(expr, st)

(* Interpreter::execute: stmt->accept *)
execute(stmt, st) == accept(stmt, st)

(* The end of Interpreter::executeBlock, were the environment restored on  *)
(* the normal path only                                                    *)
executeBlockRestoreNormalMut(previous, r) ==
    IF r.sig = "normal" THEN [r EXCEPT !.environment = previous] ELSE r

(* The end of Interpreter::executeBlock: `this->environment = previous` in *)
(* the catch (...) handler and after the try statement                     *)
executeBlockRestore(previous, r) ==
    IF r.sig = "crash" THEN r
    ELSE IF r.sig # "normal" THEN [r EXCEPT !.environment = previous]
    ELSE [r EXCEPT !.environment = previous]

(* Interpreter::executeBlock *)
executeBlock(statements, blockEnvironment, st) ==
    executeBlockRestore(st.environment,
                        executeAll(statements, 1, [st EXCEPT !.environment = blockEnvironment]))

(* after one statement of the loop below: an exception leaves the loop *)
executeRest(statements, i, r) ==
    IF r.sig # "normal" THEN r ELSE executeAll(statements, i + 1, r)

(* for (const auto& statement : statements) execute(statement); *)
executeAll(statements, i, st) ==
    IF i > Len(statements) THEN st
    ELSE executeRest(statements, i, execute(statements[i], st))

evaluateRest(exprs, i, acc, r) ==
    IF r.sig # "normal" THEN [st |-> r, values |-> acc]
    ELSE evaluateAll(exprs, i + 1, Append(acc, r.value), r)

(* the arguments of a call, an array literal: left to right *)
evaluateAll(exprs, i, acc, st) ==
    IF i > Len(exprs) THEN [st |-> st, values |-> acc]
    ELSE evaluateRest(exprs, i, acc, evaluate(exprs[i], st))

(* The environment of a call, were it a child of the caller's environment *)
CallEnvironmentDynamicMut(st, f) == NewEnvironment(st.environment)

(* std::make_shared<Environment>(closure) in ZeloFunction::call *)
CallEnvironment(st, f) == NewEnvironment(st.funStore[f].closure)

(* ZeloFunction::call, the new environment with the parameters defined *)
ZeloFunctionEnvironment(st, f, arguments) ==
    [st EXCEPT !.envStore = BindParameters(Append(@, CallEnvironment(st, f)),
                                           Len(st.envStore) + 1,
                                           FuncDecls[st.funStore[f].declaration].parameters,
                                           arguments, 1)]

(* ZeloFunction::call, interpreter->executeBlock(declaration->body, environment) *)
ZeloFunctionBody(f, st1) ==
    ObserveBlock(st1, executeBlock(FuncDecls[st1.funStore[f].declaration].body,
                                   Len(st1.envStore), Enter(st1)))

(* ZeloFunction::call, the handler of ReturnException and the normal end *)
ZeloFunctionResult(fn, r) ==
    LET this == IF "this" \in DOMAIN r.envStore[fn.closure].values
                THEN r.envStore[fn.closure].values["this"] ELSE NullV
    IN IF r.sig = "return"
       THEN [r EXCEPT !.sig = "normal", !.value = IF fn.isConstructor THEN this ELSE r.value]
       ELSE IF r.sig = "normal"
       THEN Yield(r, IF fn.isConstructor THEN this ELSE NullV)
       ELSE r

(* ZeloFunction::call *)
ZeloFunctionCall(st, f, arguments) ==
    IF st.funStore[f].declaration = 0
    THEN BuiltinCall(st, st.funStore[f].builtin, arguments)
    ELSE ZeloFunctionResult(st.funStore[f],
                            ZeloFunctionBody(f, ZeloFunctionEnvironment(st, f, arguments)))

(* boundMethod->call(arguments), b.value being the bound method *)
CallBound(b, arguments) == ZeloFunctionCall(b, b.value.n, arguments)

(* ZeloClass::call, `return instance` *)
ZeloClassInstance(o, r) == IF r.sig # "normal" THEN r ELSE Yield(r, ObjV(o))

(* ZeloClass::call *)
ZeloClassCall(st, k, arguments) ==
    LET o == Len(st.objStore) + 1
        st1 == [st EXCEPT !.objStore = Append(@, [klass |-> k, fields |-> EmptyMap])]
        initializer == findMethod(st, k, "__init__")
    IN IF initializer = 0 THEN Yield(st1, ObjV(o))
       ELSE ZeloClassInstance(o, CallBound(ZeloFunctionBind(st1, initializer, o), arguments))

(* ZeloObject::get. __getattr__ is called with a null Interpreter*. *)
ZeloObjectGet(st, o, name) ==
    IF name \in DOMAIN st.objStore[o].fields THEN Yield(st, st.objStore[o].fields[name])
    ELSE IF findMethod(st, st.objStore[o].klass, name) # 0
    THEN BoundMethod(st, findMethod(st, st.objStore[o].klass, name), o, FALSE)
    ELSE IF findMethod(st, st.objStore[o].klass, "__getattr__") # 0
    THEN [st EXCEPT !.sig = "crash"]
    ELSE Fail(st, UNDEFINED_PROPERTY, "Undefined property '" \o name \o "'")

(* ZeloObject::set. __setattr__ is called with a null Interpreter*. *)
ZeloObjectSet(st, o, name, value) ==
    IF findMethod(st, st.objStore[o].klass, "__setattr__") # 0
    THEN [st EXCEPT !.sig = "crash"]
    ELSE [st EXCEPT !.objStore[o].fields = (name :> value) @@ @]

(* Interpreter::getOperatorMethodName, for the operators of the model *)
getOperatorMethodName(op) ==
    IF op = "+" THEN "__add__"
    ELSE IF op = "-" THEN "__sub__"
    ELSE IF op = "==" THEN "__eq__"
    ELSE IF op = "!=" THEN "__ne__"
    ELSE IF op = "<" THEN "__lt__"
    ELSE ""

IsNumber(value) == value.t = "int"

(* Interpreter::visitBinaryExpr, once both operands are evaluated *)
BinaryApply(expr, left, r) ==
    LET right == r.value
        method == IF left.t = "object"
                  THEN findMethod(r, r.objStore[left.n].klass, getOperatorMethodName(expr.op))
                  ELSE 0
    IN IF r.sig # "normal" THEN r
       ELSE IF method # 0
       THEN CallBound(BoundMethod(r, method, left.n, FALSE), <<right>>)
       ELSE IF expr.op = "+"
       THEN IF left.t = "int" /\ right.t = "int" THEN Yield(r, IntV(left.n + right.n))
            ELSE IF left.t = "string" \/ right.t = "string"
            THEN Yield(r, StrV(valueToString(r, left) \o valueToString(r, right)))
            ELSE RuntimeErrorFromCode(r, TYPE_ERROR,
                                      "Operands must be two numbers or at least one string")
       ELSE IF expr.op = "-"
       THEN IF IsNumber(left) /\ IsNumber(right) THEN Yield(r, IntV(left.n - right.n))
            ELSE Fail(r, TYPE_MISMATCH, "Operands must be numbers")
       ELSE IF expr.op = "<"
       THEN IF IsNumber(left) /\ IsNumber(right) THEN Yield(r, BoolV(left.n < right.n))
            ELSE Fail(r, TYPE_MISMATCH, "Operands must be numbers")
       ELSE IF expr.op = "==" THEN Yield(r, BoolV(isEqual(r, left, right)))
       ELSE Yield(r, BoolV(~isEqual(r, left, right)))

(* Interpreter::visitBinaryExpr, Value right = evaluate(expr->right) *)
BinaryRight(expr, l) ==
    IF l.sig # "normal" THEN l ELSE BinaryApply(expr, l.value, evaluate(expr.right, l))

(* Interpreter::visitBinaryExpr *)
visitBinaryExpr(expr, st) == BinaryRight(expr, evaluate(expr.left, st))

(* arguments.size() != function->arity() *)
ArityMismatch(argc, arity) == ToSizeT(argc) # ToSizeT(arity)

ArityMessage(argc, arity) ==
    "Expected " \o (IF arity < 0 THEN "-" \o ToString(0 - arity) ELSE ToString(arity))
                \o " arguments but got " \o ToString(argc)

(* Interpreter::visitCallExpr, once callee and arguments are evaluated *)
CallChecked(callee, a) ==
    LET argc == Len(a.values)
        arity == IF callee.t = "function" THEN ZeloFunctionArity(a.st, callee.n)
                 ELSE ZeloClassArity(a.st, callee.n)
        checked == [a.st EXCEPT !.g.checks = @ \cup {[argc |-> argc, arity |-> arity,
                                                      accepted |-> ~ArityMismatch(argc, arity)]}]
    IN IF a.st.sig # "normal" THEN a.st
       ELSE IF callee.t = "function"
       THEN IF ArityMismatch(argc, arity)
            THEN RuntimeErrorFromCode(checked, TYPE_ERROR, ArityMessage(argc, arity))
            ELSE ZeloFunctionCall(checked, callee.n, a.values)
       ELSE IF callee.t = "class"
       THEN IF ArityMismatch(argc, arity)
            THEN RuntimeErrorFromCode(checked, TYPE_ERROR, ArityMessage(argc, arity))
            ELSE ZeloClassCall(checked, callee.n, a.values)
       ELSE RuntimeErrorFromCode(a.st, TYPE_ERROR, "Can only call functions and classes")

(* Interpreter::visitCallExpr, arguments.push_back(evaluate(argument)) *)
CallArguments(expr, c) ==
    IF c.sig # "normal" THEN c
    ELSE CallChecked(c.value, evaluateAll(expr.arguments, 1, <<>>, c))

(* Interpreter::visitCallExpr *)
visitCallExpr(expr, st) == CallArguments(expr, evaluate(expr.callee, st))

(* Interpreter::visitAssignExpr, object->set(property, value) *)
AssignMember(expr, value, o) ==
    IF o.sig # "normal" THEN o
    ELSE IF o.value.t = "object"
    THEN Yield(ZeloObjectSet(o, o.value.n, expr.target.property, value), value)
    ELSE RuntimeErrorFromCode(o, TYPE_ERROR, "Only objects have properties")

(* Interpreter::visitAssignExpr, once the value is evaluated *)
AssignValue(expr, v) ==
    IF v.sig # "normal" THEN v
    ELSE IF expr.target.k = "identifier"
    THEN LET r == EnvAssign(v.envStore, v.environment, expr.target.name, v.value)
         IN IF r.err # 0
            THEN Fail(v, r.err, "Undefined variable '" \o expr.target.name \o "'")
            ELSE [v EXCEPT !.envStore = r.store]
    ELSE AssignMember(expr, v.value, evaluate(expr.target.object, v))

(* Interpreter::visitAssignExpr, for identifier and member targets; expr.op *)
(* is not read                                                             *)
visitAssignExpr(expr, st) == AssignValue(expr, evaluate(expr.value, st))

(* Interpreter::visitLiteralExpr *)
visitLiteralExpr(expr, st) == Yield(st, expr.value)

(* Interpreter::visitIdentifierExpr *)
visitIdentifierExpr(expr, st) ==
    LET r == EnvGet(st.envStore, st.environment, expr.name)
    IN IF r.err # 0 THEN Fail(st, r.err, "Undefined variable '" \o expr.name \o "'")
       ELSE Yield(st, r.value)

(* Interpreter::visitArrayExpr, the new array of the evaluated elements *)
ArrayOf(a) ==
    IF a.st.sig # "normal" THEN a.st
    ELSE [a.st EXCEPT !.arrStore = Append(@, a.values),
                      !.value = ArrV(Len(a.st.arrStore) + 1)]

(* Interpreter::visitArrayExpr *)
visitArrayExpr(expr, st) == ArrayOf(evaluateAll(expr.elements, 1, <<>>, st))

(* `if (expr.start)` and its like: the value of a child expression, null   *)
(* standing for the value of an absent one                                 *)
evaluateGiven(expr, st) ==
    IF expr.k = "none" THEN Yield(st, NullV) ELSE evaluate(expr, st)

(* Interpreter::visitSliceExpr, a start or stop index: a negative one      *)
(* counts from the end, and the index is kept within 0..size               *)
sliceIndex(n, size) ==
    LET index == IF n < 0 THEN (IF size + n < 0 THEN 0 ELSE size + n) ELSE n
    IN IF index < size THEN index ELSE size

(* Interpreter::visitSliceExpr, the two loops: the elements at i, i + step *)
(* and so on while i < stop (step > 0) or i > stop (step < 0); i counts    *)
(* from 0                                                                  *)
RECURSIVE sliceElements(_, _, _, _)
sliceElements(array, i, stop, step) ==
    IF (step > 0 /\ i < stop) \/ (step < 0 /\ i > stop)
    THEN (IF i >= 0 /\ i < Len(array) THEN << array[i + 1] >> ELSE <<>>)
         \o sliceElements(array, i + step, stop, step)
    ELSE <<>>

(* Interpreter::visitSliceExpr, once the step is evaluated *)
SliceResult(expr, array, start, stop, s) ==
    LET step == IF expr.step.k = "none" THEN 1 ELSE s.value.n
    IN IF s.sig # "normal" THEN s
       ELSE IF expr.step.k # "none" /\ s.value.t # "int"
       THEN RuntimeErrorFromCode(s, TYPE_ERROR, "Slice step must be an integer")
       ELSE IF step = 0
       THEN RuntimeErrorFromCode(s, INVALID_OPERATION, "Slice step cannot be zero")
       ELSE [s EXCEPT !.arrStore = Append(@, sliceElements(s.arrStore[array], start, stop, step)),
                      !.value = ArrV(Len(s.arrStore) + 1)]

(* Interpreter::visitSliceExpr, once the stop index is evaluated *)
SliceStep(expr, array, start, e) ==
    IF e.sig # "normal" THEN e
    ELSE IF expr.stop.k # "none" /\ e.value.t # "int"
    THEN RuntimeErrorFromCode(e, TYPE_ERROR, "Slice stop must be an integer")
    ELSE SliceResult(expr, array, start,
                     IF expr.stop.k = "none" THEN Len(e.arrStore[array])
                     ELSE sliceIndex(e.value.n, Len(e.arrStore[array])),
                     evaluateGiven(expr.step, e))

(* Interpreter::visitSliceExpr, once the start index is evaluated *)
SliceStop(expr, array, b) ==
    IF b.sig # "normal" THEN b
    ELSE IF expr.start.k # "none" /\ b.value.t # "int"
    THEN RuntimeErrorFromCode(b, TYPE_ERROR, "Slice start must be an integer")
    ELSE SliceStep(expr, array,
                   IF expr.start.k = "none" THEN 0
                   ELSE sliceIndex(b.value.n, Len(b.arrStore[array])),
                   evaluateGiven(expr.stop, b))

(* Interpreter::visitSliceExpr, once the object is evaluated *)
SliceStart(expr, o) ==
    IF o.sig # "normal" THEN o
    ELSE IF o.value.t # "array"
    THEN RuntimeErrorFromCode(o, TYPE_ERROR, "Slice operation only supported for arrays")
    ELSE SliceStop(expr, o.value.n, evaluateGiven(expr.start, o))

(* Interpreter::visitSliceExpr *)
visitSliceExpr(expr, st) == SliceStart(expr, evaluate(expr.object, st))

(* Interpreter::visitMemberExpr, once the object is evaluated *)
MemberOf(expr, o) ==
    IF o.sig # "normal" THEN o
    ELSE IF o.value.t = "object" THEN ZeloObjectGet(o, o.value.n, expr.property)
    ELSE RuntimeErrorFromCode(o, TYPE_ERROR, "Only objects have properties")

(* Interpreter::visitMemberExpr *)
visitMemberExpr(expr, st) == MemberOf(expr, evaluate(expr.object, st))

(* A while loop whose handler for BreakStmt is missing: the signal leaves  *)
(* the loop                                                                *)
WhileNextNoBreakMut(stmt, r) ==
    IF r.sig \in {"normal", "continue"}
    THEN visitWhileStmt(stmt, [r EXCEPT !.sig = "normal"])
    ELSE r

(* Interpreter::visitWhileStmt, after execute(stmt->body): the handlers of *)
(* BreakStmt and ContinueStmt                                              *)
WhileNext(stmt, r) ==
    IF r.sig = "break" THEN [r EXCEPT !.sig = "normal"]
    ELSE IF r.sig \in {"normal", "continue"}
    THEN visitWhileStmt(stmt, [r EXCEPT !.sig = "normal"])
    ELSE r

(* Interpreter::visitWhileStmt, while (isTruthy(evaluate(condition))) *)
WhileBody(stmt, c) ==
    IF c.sig # "normal" \/ ~isTruthy(c.value) THEN c
    ELSE WhileNext(stmt, execute(stmt.body, c))

(* Interpreter::visitWhileStmt *)
visitWhileStmt(stmt, st) == WhileBody(stmt, evaluate(stmt.condition, st))

(* Interpreter::visitForStmt, after execute(stmt->body) *)
ForNext(stmt, array, i, r) ==
    IF r.sig = "break" THEN [r EXCEPT !.sig = "normal"]
    ELSE IF r.sig \in {"normal", "continue"}
    THEN ForFrom(stmt, array, i + 1, [r EXCEPT !.sig = "normal"])
    ELSE r

(* the loop of Interpreter::visitForStmt over the elements of the array *)
ForFrom(stmt, array, i, st) ==
    IF i > Len(st.arrStore[array]) THEN st
    ELSE ForNext(stmt, array, i,
                 execute(stmt.body,
                         [st EXCEPT !.envStore = EnvDefine(@, st.environment, stmt.variable,
                                                           st.arrStore[array][i])]))

(* Interpreter::visitForStmt, once the iterable is evaluated *)
ForOver(stmt, it) ==
    IF it.sig # "normal" THEN it
    ELSE IF it.value.t = "array" THEN ForFrom(stmt, it.value.n, 1, it)
    ELSE RuntimeErrorFromCode(it, TYPE_ERROR, "For loop requires an iterable object")

(* Interpreter::visitForStmt *)
visitForStmt(stmt, st) == ForOver(stmt, evaluate(stmt.iterable, st))

(* r with the exception caught: the catch variable defined in the current  *)
(* environment with error.what()                                           *)
Caught(stmt, before, r) ==
    LET caught == [r EXCEPT !.sig = "normal", !.err = 0, !.msg = "",
                            !.g.catches = Append(@, [message |-> r.msg,
                                                     scope |-> r.environment,
                                                     before |-> before])]
    IN IF stmt.catchVar # ""
       THEN [caught EXCEPT !.envStore = EnvDefine(@, caught.environment,
                                                  stmt.catchVar, StrV(r.msg))]
       ELSE caught

(* A try statement whose handler catches ReturnException as well *)
CatchRuntimeErrorAndReturnMut(stmt, before, r) ==
    IF r.sig \in {"error", "return"} THEN execute(stmt.catchBlock, Caught(stmt, before, r))
    ELSE r

(* Interpreter::visitTryCatchStmt: catch (const RuntimeError&) only *)
CatchRuntimeError(stmt, before, r) ==
    IF r.sig = "error" THEN execute(stmt.catchBlock, Caught(stmt, before, r)) ELSE r

(* Interpreter::visitTryCatchStmt *)
visitTryCatchStmt(stmt, st) ==
    CatchRuntimeError(stmt, st.environment, execute(stmt.tryBlock, st))

(* the methods of Interpreter::visitClassDeclStmt: body[i] is the index of *)
(* a FunctionDeclStmt                                                      *)
RECURSIVE MethodsFrom(_, _, _, _)
MethodsFrom(body, i, first, closure) ==
    IF i > Len(body) THEN [funs |-> <<>>, methods |-> EmptyMap]
    ELSE LET rest == MethodsFrom(body, i + 1, first + 1, closure)
             name == FuncDecls[body[i]].name
             fn == [declaration |-> body[i], closure |-> closure,
                    isConstructor |-> (name = "__init__"),
                    builtin |-> "", builtinArity |-> 0]
         IN [funs |-> <<fn>> \o rest.funs,
             (* a later method of the same name replaces an earlier one *)
             methods |-> rest.methods @@ (name :> first)]

(* Interpreter::visitClassDeclStmt *)
visitClassDeclStmt(stmt, st) ==
    LET sup == EnvGet(st.envStore, st.environment, stmt.superclass)
        ms == MethodsFrom(stmt.body, 1, Len(st.funStore) + 1, st.environment)
        k == Len(st.clsStore) + 1
        declared == EnvDefine(st.envStore, st.environment, stmt.name, NullV)
    IN IF stmt.superclass # "" /\ sup.err # 0
       THEN Fail(st, sup.err, "Undefined variable '" \o stmt.superclass \o "'")
       ELSE IF stmt.superclass # "" /\ sup.value.t # "class"
       THEN RuntimeErrorFromCode(st, TYPE_ERROR, "Superclass must be a class")
       ELSE [st EXCEPT !.funStore = @ \o ms.funs,
                       !.clsStore = Append(@, [name |-> stmt.name,
                                               superclass |-> IF stmt.superclass # ""
                                                              THEN sup.value.n ELSE 0,
                                               methods |-> ms.methods]),
                       !.envStore = EnvAssign(declared, st.environment, stmt.name, ClsV(k)).store]

(* ModuleSystem::loadModule, interpreter->executeBlock(statements, env) *)
ModuleBody(m, st1) ==
    ObserveBlock(st1, executeBlock(Modules[m], Len(st1.envStore), Enter(st1)))

(* How many loads can be in progress at once. Each load in progress holds *)
(* an open std::ifstream and the stack frames from loadModule down to the  *)
(* import statement; the process has a limit for both.                     *)
MaxLoadDepth == 3

(* What a load beyond that limit does: the file cannot be opened ("files": *)
(* loadModule throws RuntimeError) or the stack is used up ("stack": the   *)
(* process ends). Which limit is met first depends on the process limits.  *)
Exhaustions == {"files", "stack"}

Exhausted(m, st) ==
    IF st.exhaustion = "files"
    THEN Fail(st, 0, "Could not open module: " \o ToString(m))
    ELSE [st EXCEPT !.sig = "crash"]

(* ModuleSystem::loadModule, from the open file to the return: the loads   *)
(* in progress are those of st.loading and this one                        *)
LoadEntered(m, st) ==
    [st EXCEPT !.envStore = Append(@, NewEnvironment(0)),
               !.loading = Append(@, m),
               !.g.reloaded = @ \/ (\E i \in DOMAIN st.loading : st.loading[i] = m)]

(* ModuleSystem::loadModule: the statements of the file run by             *)
(* executeBlock in a new environment with no enclosing one                 *)
loadModule(m, st) ==
    IF Len(st.loading) >= MaxLoadDepth THEN Exhausted(m, st)
    ELSE [Yield(ModuleBody(m, LoadEntered(m, st)),
                [t |-> "environment", n |-> Len(st.envStore) + 1, s |-> ""])
            EXCEPT !.loading = st.loading]

(* the cache entry made whether or not the load succeeded *)
CacheModuleOfFailedLoadMut(m, r) == [r EXCEPT !.moduleCache = (m :> r.value.n) @@ @]

(* ModuleSystem::requireModule, moduleCache[resolvedPath] = module *)
CacheModule(m, r) ==
    IF r.sig # "normal" THEN r ELSE [r EXCEPT !.moduleCache = (m :> r.value.n) @@ @]

(* ModuleSystem::requireModule; resolveModulePath throws for a file that   *)
(* does not exist                                                          *)
requireModule(m, st) ==
    IF m \notin DOMAIN Modules THEN Fail(st, 0, "Module not found: " \o ToString(m))
    ELSE IF m \in DOMAIN st.moduleCache
    THEN Yield(st, [t |-> "environment", n |-> st.moduleCache[m], s |-> ""])
    ELSE CacheModule(m, loadModule(m, st))

(* ModuleSystem::includeModule: no look at the cache, no entry made *)
includeModule(m, st) ==
    IF m \notin DOMAIN Modules THEN Fail(st, 0, "Module not found: " \o ToString(m))
    ELSE loadModule(m, st)

(* Interpreter::visitExprStmt *)
visitExprStmt(stmt, st) == evaluate(stmt.expression, st)

(* Interpreter::visitBlockStmt, executeBlock(statements, environment) *)
BlockBody(stmt, st1) ==
    ObserveBlock(st1, executeBlock(stmt.statements, Len(st1.envStore), Enter(st1)))

(* Interpreter::visitBlockStmt *)
visitBlockStmt(stmt, st) ==
    BlockBody(stmt, [st EXCEPT !.envStore = Append(@, NewEnvironment(st.environment))])

(* Interpreter::visitVarDeclStmt, environment->define(name, value) *)
DefineVar(stmt, v) ==
    IF v.sig # "normal" THEN v
    ELSE [v EXCEPT !.envStore = EnvDefine(@, v.environment, stmt.name, v.value)]

(* Interpreter::visitVarDeclStmt, for a declaration without annotation;    *)
(* stmt.isConst is not read                                                *)
visitVarDeclStmt(stmt, st) ==
    DefineVar(stmt, IF stmt.hasInitializer THEN evaluate(stmt.initializer, st)
                    ELSE Yield(st, NullV))

(* Interpreter::visitFunctionDeclStmt *)
visitFunctionDeclStmt(stmt, st) ==
    LET f == Len(st.funStore) + 1
    IN [st EXCEPT !.funStore = Append(@, [declaration |-> stmt.decl,
                                          closure |-> st.environment,
                                          isConstructor |-> FALSE,
                                          builtin |-> "", builtinArity |-> 0]),
                  !.envStore = EnvDefine(@, st.environment,
                                         FuncDecls[stmt.decl].name, FunV(f))]

(* Interpreter::visitIfStmt, once the condition is evaluated *)
IfBranch(stmt, c) ==
    IF c.sig # "normal" THEN c
    ELSE IF isTruthy(c.value) THEN execute(stmt.thenBranch, c)
    ELSE IF stmt.hasElse THEN execute(stmt.elseBranch, c)
    ELSE c

(* Interpreter::visitIfStmt *)
visitIfStmt(stmt, st) == IfBranch(stmt, evaluate(stmt.condition, st))

(* throw ReturnException(value) *)
ThrowReturn(v) == IF v.sig # "normal" THEN v ELSE [v EXCEPT !.sig = "return"]

(* Interpreter::visitReturnStmt *)
visitReturnStmt(stmt, st) ==
    ThrowReturn(IF stmt.hasValue THEN evaluate(stmt.value, st) ELSE Yield(st, NullV))

(* Interpreter::visitBreakStmt: throw BreakStmt() *)
visitBreakStmt(stmt, st) == [st EXCEPT !.sig = "break"]

(* Interpreter::visitContinueStmt: throw ContinueStmt() *)
visitContinueStmt(stmt, st) == [st EXCEPT !.sig = "continue"]

(* Interpreter::visitImportStmt, for `import "module"` *)
visitImportStmt(stmt, st) == requireModule(stmt.moduleName, st)

(* Interpreter::visitExportStmt, the loop over stmt.exports: the value of   *)
(* each name is read from the current environment and defined in the       *)
(* exports environment                                                     *)
RECURSIVE ExportFrom(_, _, _, _)
ExportFrom(exports, i, exportsEnv, st) ==
    IF i > Len(exports) THEN st
    ELSE LET r == EnvGet(st.envStore, st.environment, exports[i])
         IN IF r.err # 0
            THEN Fail(st, r.err, "Undefined variable '" \o exports[i] \o "'")
            ELSE ExportFrom(exports, i + 1, exportsEnv,
                            [st EXCEPT !.envStore = EnvDefine(@, exportsEnv, exports[i], r.value)])

(* Interpreter::visitExportStmt: environment->get("__exports__") throws    *)
(* when no enclosing environment defines the name                          *)
visitExportStmt(stmt, st) ==
    LET r == EnvGet(st.envStore, st.environment, "__exports__")
        e == Len(st.envStore) + 1
    IN IF r.err # 0 THEN Fail(st, r.err, "Undefined variable '__exports__'")
       ELSE IF r.value.t = "environment" THEN ExportFrom(stmt.exports, 1, r.value.n, st)
       ELSE ExportFrom(stmt.exports, 1, e,
                       [st EXCEPT !.envStore =
                            EnvDefine(Append(@, NewEnvironment(0)), st.environment, "__exports__",
                                      [t |-> "environment", n |-> e, s |-> ""])])

(* throw RuntimeError::fromCode(RUNTIME_ERROR, valueToString(value), 0) *)
ThrowValue(v) ==
    IF v.sig # "normal" THEN v
    ELSE RuntimeErrorFromCode(v, RUNTIME_ERROR, valueToString(v, v.value))

(* Interpreter::visitThrowStmt *)
visitThrowStmt(stmt, st) == ThrowValue(evaluate(stmt.expression, st))

(* Expr::accept and Stmt::accept: the visitor of the node's class *)
accept(node, st) ==
    CASE node.k = "literal" -> visitLiteralExpr(node, st)
      [] node.k = "identifier" -> visitIdentifierExpr(node, st)
      [] node.k = "binary" -> visitBinaryExpr(node, st)
      [] node.k = "array" -> visitArrayExpr(node, st)
      [] node.k = "call" -> visitCallExpr(node, st)
      [] node.k = "member" -> visitMemberExpr(node, st)
      [] node.k = "slice" -> visitSliceExpr(node, st)
      [] node.k = "assign" -> visitAssignExpr(node, st)
      [] node.k = "expr" -> visitExprStmt(node, st)
      [] node.k = "block" -> visitBlockStmt(node, st)
      [] node.k = "var" -> visitVarDeclStmt(node, st)
      [] node.k = "function" -> visitFunctionDeclStmt(node, st)
      [] node.k = "class" -> visitClassDeclStmt(node, st)
      [] node.k = "if" -> visitIfStmt(node, st)
      [] node.k = "while" -> visitWhileStmt(node, st)
      [] node.k = "for" -> visitForStmt(node, st)
      [] node.k = "return" -> visitReturnStmt(node, st)
      [] node.k = "break" -> visitBreakStmt(node, st)
      [] node.k = "continue" -> visitContinueStmt(node, st)
      [] node.k = "import" -> visitImportStmt(node, st)
      [] node.k = "export" -> visitExportStmt(node, st)
      [] node.k = "try" -> visitTryCatchStmt(node, st)
      [] node.k = "throw" -> visitThrowStmt(node, st)

----------------------------------------------------------------------------
(* The interpreter as a machine: one Interpreter object, whose interpret   *)
(* is called with one parsed program after another (the REPL of main.cpp). *)

(* Interpreter::collectGarbage collects at every 1000th call *)
GC_INTERVAL == 1000

(* The built-in functions of the model, as BuiltinFunctions::initialize    *)
(* defines them: name and declared arity                                   *)
Builtins == << [name |-> "print", arity |-> -1],
               [name |-> "type", arity |-> 1],
               [name |-> "min", arity |-> -1] >>

(* BuiltinFunctions::defineFunction: ZeloFunction(nullptr, nullptr) with   *)
(* its call and arity members replaced                                     *)
defineFunction(i) ==
    [declaration |-> 0, closure |-> 0, isConstructor |-> FALSE,
     builtin |-> Builtins[i].name, builtinArity |-> Builtins[i].arity]

RECURSIVE BuiltinValues(_)
BuiltinValues(i) ==
    IF i = 0 THEN EmptyMap ELSE (Builtins[i].name :> FunV(i)) @@ BuiltinValues(i - 1)

NoRun == [op |-> "init", line |-> 0, sig |-> "normal", err |-> 0, msg |-> "",
          value |-> NullV, count |-> 0, statementCount |-> 0]

(* Interpreter::Interpreter *)
InitInterpreter ==
    /\ envStore = << [enclosing |-> 0, values |-> BuiltinValues(Len(Builtins))] >>
    /\ funStore = [i \in 1..Len(Builtins) |-> defineFunction(i)]
    /\ objStore = <<>> /\ clsStore = <<>> /\ arrStore = <<>> /\ dictStore = <<>>
    /\ InterpIdle
    /\ GcIdle
    /\ last = NoRun

InterpreterState ==
    [envStore |-> envStore, objStore |-> objStore, funStore |-> funStore,
     clsStore |-> clsStore, arrStore |-> arrStore, environment |-> environment,
     moduleCache |-> moduleCache, output |-> output, g |-> ghost,
     sig |-> "normal", value |-> NullV, err |-> 0, msg |-> "",
     loading |-> <<>>, exhaustion |-> "stack"]

(* A BreakStmt or ContinueStmt that reaches interpret is caught by neither *)
(* of its handlers, and a call through a null Interpreter* is undefined:   *)
(* the process ends.                                                       *)
Terminated == last.sig \in {"break", "continue", "crash"}

(* Interpreter::interpret(statements), where statements is the program     *)
(* program; line names it in the record of the run.                        *)
Interpret(line, program) ==
    /\ ~Terminated
    /\ LET r == executeAll(program, 1, InterpreterState)
           statementCount == IF r.sig = "normal" THEN last.statementCount + 1
                             ELSE last.statementCount
       IN /\ envStore' = r.envStore /\ objStore' = r.objStore /\ funStore' = r.funStore
          /\ clsStore' = r.clsStore /\ arrStore' = r.arrStore
          /\ environment' = r.environment
          /\ moduleCache' = r.moduleCache
          /\ output' = r.output
          /\ ghost' = r.g
          /\ SetGc(IF r.sig = "normal" /\ statementCount >= GC_INTERVAL
                   THEN collectGarbage(GcState, Globals) ELSE GcState)
          /\ last' = [op |-> "interpret", line |-> line, sig |-> r.sig, err |-> r.err,
                      msg |-> r.msg, value |-> r.value, count |-> last.count + 1,
                      statementCount |-> IF statementCount >= GC_INTERVAL THEN 0
                                         ELSE statementCount]
    /\ UNCHANGED <<dictStore, registered>>

(* the value of a global variable, null when it is not defined *)
Global(name) ==
    IF name \in DOMAIN envStore[Globals].values THEN envStore[Globals].values[name] ELSE NullV

----------------------------------------------------------------------------
(* Blocks: programs whose blocks end in each of the ways a block can end,  *)
(* nested in blocks, in calls of user functions and in module loads.       *)
True == Lit(BoolV(TRUE))
OneTwo == ArrayE(<<Num(1), Num(2)>>)

BlockPrograms == <<
    (* 1: { loc a = 1; { a = 2; } } import "m1"; *)
    << Block(<< VarDecl("a", Num(1)), Block(<< Set("a", Num(2)) >>) >>), Import(1) >>,
    (* 2: loc t = ""; func boom() {...} boom(); *)
    << VarDecl("t", Str("")), FunctionDecl(5), ExprS(Call0("boom")) >>,
    (* 3: while (true) { { break; } } for i in [1, 2] { { continue; } }    *)
    (*    loc t = ""; func find() {...} loc r = find();                    *)
    << While(True, Block(<< Block(<< Break >>) >>)),
       For("i", OneTwo, Block(<< Block(<< Continue >>) >>)),
       VarDecl("t", Str("")), FunctionDecl(7), VarDecl("r", Call0("find")) >>,
    (* 4: import "m2"; *)
    << Import(2) >>,
    (* 5: loc t = ""; func boom() {...} try { boom(); } catch (e) { t = t + e; } *)
    << VarDecl("t", Str("")), FunctionDecl(5),
       TryCatch(Block(<< ExprS(Call0("boom")) >>), "e",
                Block(<< Set("t", Binary(Id("t"), "+", Id("e"))) >>)) >>
>>

MaxBlockRuns == 3

NextBlocks ==
    \E line \in DOMAIN BlockPrograms :
        last.count < MaxBlockRuns /\ Interpret(line, BlockPrograms[line])

SpecBlocks == InitInterpreter /\ [][NextBlocks]_vars

(* C2: every call of executeBlock returns, normally or by a runtime error  *)
(* or a return, break or continue signal, with the interpreter's current   *)
(* environment being the one that was current when it was called, at every *)
(* nesting of blocks, function calls and module loads; so interpret always *)
(* ends in the global environment.                                         *)
C2_BlockRestoresEnvironment == ghost.restored /\ environment = Globals

ExitsAt(sig) == {x[2] : x \in {y \in ghost.exits : y[1] = sig}}

C2_Witness ==
    /\ \A sig \in {"normal", "error", "return", "break", "continue"} :
           \E d \in ExitsAt(sig) : d >= 2
    /\ moduleCache # EmptyMap
    /\ last.sig = "error"

----------------------------------------------------------------------------
(* Constants: `const c = 1;` and assignments to c in the declaring scope,  *)
(* in an inner block and in a function that closes over it.                *)
ConstPrograms == <<
    (* 1: const c = 1; *)
    << ConstDecl("c", Num(1)) >>,
    (* 2: c = 3; *)
    << Set("c", Num(3)) >>,
    (* 3: { c = 4; } *)
    << Block(<< Set("c", Num(4)) >>) >>,
    (* 4: func setc() { c = 2; } setc(); *)
    << FunctionDecl(4), ExprS(Call0("setc")) >>
>>

ConstAssignments == {2, 3, 4}

MaxConstRuns == 4

NextConst ==
    \E line \in DOMAIN ConstPrograms :
        last.count < MaxConstRuns /\ Interpret(line, ConstPrograms[line])

SpecConst == InitInterpreter /\ [][NextConst]_vars

(* the codes of the type category of ErrorCode.h *)
TypeCategory == 200..299

(* C4: once `const c = 1;` has run (no other program defines c), a program *)
(* that assigns to c ends with an error of the type category and c is      *)
(* still 1.                                                                *)
C4_ConstAssignmentFails ==
    (last.line \in ConstAssignments /\ "c" \in DOMAIN envStore[Globals].values)
        => /\ last.sig = "error"
           /\ last.err \in TypeCategory
           /\ Global("c") = IntV(1)

----------------------------------------------------------------------------
(* Closures: the counter scenario.                                         *)
(*   func make() { loc n = 0; func inc() { n = n + 1; return n; }          *)
(*                 return inc; }                                           *)
ClosurePrograms == <<
    (* 1: func make() {...} loc a = make(); loc b = make(); *)
    << FunctionDecl(1), VarDecl("a", Call0("make")), VarDecl("b", Call0("make")) >>,
    (* 2: loc r = a(); *)
    << VarDecl("r", Call0("a")) >>,
    (* 3: loc r = b(); *)
    << VarDecl("r", Call0("b")) >>
>>

MaxClosureRuns == 5

NextClosures ==
    \E line \in DOMAIN ClosurePrograms :
        last.count < MaxClosureRuns /\ Interpret(line, ClosurePrograms[line])

SpecClosures == InitInterpreter /\ [][NextClosures]_vars

(* the closure environment of the function the global `name` holds, and    *)
(* the variable n captured in it                                           *)
ClosureOf(name) == funStore[Global(name).n].closure
Captured(name) == envStore[ClosureOf(name)].values["n"]

(* a step that calls the function held by the global f, while the global   *)
(* other holds the function made by the other call of make                 *)
CounterStep(f, other) ==
    /\ last'.sig = "normal"
    /\ Len(envStore') = Len(envStore) + 1
    /\ envStore'[Len(envStore')].enclosing = ClosureOf(f)
    /\ Captured(f)' = IntV(Captured(f).n + 1)
    /\ Global("r")' = Captured(f)'
    /\ Captured(other)' = Captured(other)

(* C5: a call of a user function runs in a new child of the function's     *)
(* closure environment: each call of the counter made by make() adds one   *)
(* to the n it captured and returns it (1, 2, 3 from a new counter), and   *)
(* the counters made by two calls of make() have distinct captured         *)
(* variables, a call of one leaving the other's unchanged.                 *)
C5_ClosureCounter ==
    [][ /\ last'.line = 1 =>
            /\ last'.sig = "normal"
            /\ Captured("a")' = IntV(0) /\ Captured("b")' = IntV(0)
            /\ ClosureOf("a")' # ClosureOf("b")'
            /\ {ClosureOf("a")', ClosureOf("b")'} \cap DOMAIN envStore = {}
        /\ (last'.line = 2 /\ Global("a").t = "function") => CounterStep("a", "b")
        /\ (last'.line = 3 /\ Global("b").t = "function") => CounterStep("b", "a") ]_vars

C5_Witness ==
    /\ last.line = 2 /\ last.sig = "normal"
    /\ Global("r") = IntV(3) /\ Captured("a") = IntV(3)
    /\ Captured("b") = IntV(1)

----------------------------------------------------------------------------
(* Methods: class K { m() { return this.v; } } with two instances.         *)
MethodPrograms == <<
    (* 1: class K { m() {...} } loc o1 = K(); o1.v = 1; loc o2 = K(); o2.v = 2; *)
    << ClassDecl("K", "", <<3>>),
       VarDecl("o1", Call0("K")), ExprS(AssignE(Member(Id("o1"), "v"), Num(1))),
       VarDecl("o2", Call0("K")), ExprS(AssignE(Member(Id("o2"), "v"), Num(2))) >>,
    (* 2: o1.m; *)
    << ExprS(Member(Id("o1"), "m")) >>,
    (* 3: loc f = o1.m; *)
    << VarDecl("f", Member(Id("o1"), "m")) >>,
    (* 4: loc g = o2.m; *)
    << VarDecl("g", Member(Id("o2"), "m")) >>,
    (* 5: loc r = f(); loc s = o1.m(); *)
    << VarDecl("r", Call0("f")), VarDecl("s", CallE(Member(Id("o1"), "m"), <<>>)) >>,
    (* 6: loc r = g(); loc s = o2.m(); *)
    << VarDecl("r", Call0("g")), VarDecl("s", CallE(Member(Id("o2"), "m"), <<>>)) >>
>>

MaxMethodRuns == 4

NextMethods ==
    \E line \in DOMAIN MethodPrograms :
        last.count < MaxMethodRuns /\ Interpret(line, MethodPrograms[line])

SpecMethods == InitInterpreter /\ [][NextMethods]_vars

(* the functions in the method tables of the classes *)
TableMethods == UNION {Range(clsStore[k].methods) : k \in DOMAIN clsStore}

(* `this` is defined in the closure environment of no method of a table *)
NoThisInTables ==
    \A m \in TableMethods : "this" \notin DOMAIN envStore[funStore[m].closure].values

(* the step of `o1.m;`: the value is a new function over a new environment *)
(* that holds `this` and encloses the closure of K's method m, and every   *)
(* cell that existed is as it was                                          *)
BindStep ==
    LET method == findMethod(InterpreterState, objStore[Global("o1").n].klass, "m")
        bound == last'.value
    IN /\ last'.sig = "normal"
       /\ bound.t = "function" /\ bound.n \notin DOMAIN funStore
       /\ funStore'[bound.n].closure \notin DOMAIN envStore
       /\ envStore'[funStore'[bound.n].closure] =
              [enclosing |-> funStore[method].closure, values |-> ("this" :> Global("o1"))]
       /\ funStore'[bound.n].declaration = funStore[method].declaration
       /\ \A e \in DOMAIN envStore : envStore'[e] = envStore[e]
       /\ \A f \in DOMAIN funStore : funStore'[f] = funStore[f]
       /\ clsStore' = clsStore /\ objStore' = objStore

(* C6: a method taken from an instance is a new function whose closure is  *)
(* a new environment that defines `this` as the instance and encloses the  *)
(* method's closure; the class's method table, the method and its closure  *)
(* are unchanged and never define `this`; the methods bound from two       *)
(* instances keep their own `this`, and `loc f = obj.m; f()` gives what    *)
(* `obj.m()` gives.                                                        *)
C6_MethodBinding ==
    [][ /\ NoThisInTables'
        /\ (last'.line = 2 /\ Global("o1").t = "object") => BindStep
        /\ (last'.line = 5 /\ Global("f").t = "function") =>
               (last'.sig = "normal" /\ Global("r")' = IntV(1) /\ Global("s")' = Global("r")')
        /\ (last'.line = 6 /\ Global("g").t = "function") =>
               (last'.sig = "normal" /\ Global("r")' = IntV(2) /\ Global("s")' = Global("r")')
      ]_vars

C6_Witness ==
    /\ last.line = 5 /\ last.count = 4
    /\ Global("g").t = "function" /\ Global("f").n < Global("g").n
    /\ Global("r") = IntV(1) /\ Global("s") = IntV(1)

----------------------------------------------------------------------------
(* Calls: built-ins of fixed and of variadic arity, a user function and a  *)
(* class, called with and without the declared number of arguments.        *)
ArityPrograms == <<
    (* 1: print(1); *)
    << ExprS(CallE(Id("print"), <<Num(1)>>)) >>,
    (* 2: min(1, 2); *)
    << ExprS(CallE(Id("min"), <<Num(1), Num(2)>>)) >>,
    (* 3: type(1); *)
    << ExprS(CallE(Id("type"), <<Num(1)>>)) >>,
    (* 4: type(); *)
    << ExprS(Call0("type")) >>,
    (* 5: func id(a) { return a; } id(1); *)
    << FunctionDecl(6), ExprS(CallE(Id("id"), <<Num(1)>>)) >>,
    (* 6: func id(a) { return a; } id(1, 2); *)
    << FunctionDecl(6), ExprS(CallE(Id("id"), <<Num(1), Num(2)>>)) >>,
    (* 7: class K { m() {...} } K(1); *)
    << ClassDecl("K", "", <<3>>), ExprS(CallE(Id("K"), <<Num(1)>>)) >>
>>

MaxArityRuns == 3

NextArity ==
    \E line \in DOMAIN ArityPrograms :
        last.count < MaxArityRuns /\ Interpret(line, ArityPrograms[line])

SpecArity == InitInterpreter /\ [][NextArity]_vars

(* C8: the arity check of a call site accepts the call exactly when the    *)
(* number of arguments equals the callee's arity() or the callee's arity() *)
(* is -1 (a variadic built-in); a program whose call is not accepted ends  *)
(* with a type error.                                                      *)
C8_ArityCheck ==
    /\ \A c \in ghost.checks : c.accepted <=> (c.argc = c.arity \/ c.arity = -1)
    /\ (last.op = "interpret" /\ last.line \in {4, 6, 7})
           => (last.sig = "error" /\ last.err = TYPE_ERROR)

----------------------------------------------------------------------------
(* Loops: programs that write their steps to the string t.                 *)
Plus(name, e) == Set(name, Binary(Id(name), "+", e))

LoopPrograms == <<
    (* 1: loc t = "";                                                      *)
    (*    for i in [1, 2] { while (true) { t += "w"; break; t += "x"; }    *)
    (*                      t += "a"; }                                    *)
    (*    t += "e";                                                        *)
    << VarDecl("t", Str("")),
       For("i", OneTwo, Block(<<
           While(True, Block(<< Note("w"), Break, Note("x") >>)),
           Note("a") >>)),
       Note("e") >>,
    (* 2: loc t = ""; loc n = 0;                                           *)
    (*    while (n < 2) { n = n + 1;                                       *)
    (*                    for j in [1, 2] { t += "f"; break; t += "x"; }   *)
    (*                    t += "a"; }                                      *)
    (*    t += "e";                                                        *)
    << VarDecl("t", Str("")), VarDecl("n", Num(0)),
       While(Binary(Id("n"), "<", Num(2)), Block(<<
           Plus("n", Num(1)),
           For("j", OneTwo, Block(<< Note("f"), Break, Note("x") >>)),
           Note("a") >>)),
       Note("e") >>,
    (* 3: loc t = ""; loc n = 0;                                           *)
    (*    for i in [1, 2] { for j in [1, 2] { if (j == 1) continue;        *)
    (*                                        t += "j"; }                  *)
    (*                      t += "i"; }                                    *)
    (*    while (n < 3) { n = n + 1; if (n == 2) continue; t += "n"; }     *)
    << VarDecl("t", Str("")), VarDecl("n", Num(0)),
       For("i", OneTwo, Block(<<
           For("j", OneTwo, Block(<<
               If(Binary(Id("j"), "==", Num(1)), Continue), Note("j") >>)),
           Note("i") >>)),
       While(Binary(Id("n"), "<", Num(3)), Block(<<
           Plus("n", Num(1)),
           If(Binary(Id("n"), "==", Num(2)), Continue),
           Note("n") >>)) >>,
    (* 4: loc t = ""; func find() {...} loc r = find(); t += "z"; *)
    << VarDecl("t", Str("")), FunctionDecl(7), VarDecl("r", Call0("find")), Note("z") >>
>>

(* what each program leaves in t when break and continue act on the        *)
(* innermost loop and return on the call of find                           *)
LoopTraces == << "wawae", "fafae", "jijinn", "wz" >>

MaxLoopRuns == 4

NextLoops ==
    \E line \in DOMAIN LoopPrograms :
        last.count < MaxLoopRuns /\ Interpret(line, LoopPrograms[line])

SpecLoops == InitInterpreter /\ [][NextLoops]_vars

(* C9: break ends the innermost loop that is executing, while or for, and  *)
(* the program goes on after it, the outer loop iterating on; continue     *)
(* ends the current iteration of the innermost loop only; return from      *)
(* within the nested loops of find ends them and the call, which yields 7. *)
C9_LoopSignals ==
    last.op = "interpret" =>
        /\ last.sig = "normal"
        /\ Global("t") = StrV(LoopTraces[last.line])
        /\ last.line = 4 => Global("r") = IntV(7)

C9_Witness ==
    /\ last.line = 1 /\ Global("t") = StrV("wawae")
    /\ Global("r") = IntV(7) /\ Global("n") = IntV(3)

----------------------------------------------------------------------------
(* Errors: programs with try/catch that write their steps to the string t. *)
Catch(tryBlock, catchVar, catchBlock) == TryCatch(Block(tryBlock), catchVar, Block(catchBlock))

TryPrograms == <<
    (* 1: loc t = "";                                                      *)
    (*    try { t += "a"; throw "boom"; t += "x"; } catch (e) { t += e; }  *)
    (*    t += "z";                                                        *)
    << VarDecl("t", Str("")),
       Catch(<< Note("a"), Throw(Str("boom")), Note("x") >>, "e", << Plus("t", Id("e")) >>),
       Note("z") >>,
    (* 2: loc t = "";                                                      *)
    (*    try { try { { throw "in"; } t += "x"; } catch (e) { t += e; }    *)
    (*          t += "m"; throw 5; t += "x"; } catch (e2) { t += e2; }     *)
    (*    t += "z";                                                        *)
    << VarDecl("t", Str("")),
       Catch(<< Catch(<< Block(<< Throw(Str("in")) >>), Note("x") >>, "e",
                      << Plus("t", Id("e")) >>),
                Note("m"), Throw(Num(5)), Note("x") >>,
             "e2", << Plus("t", Id("e2")) >>),
       Note("z") >>,
    (* 3: loc t = ""; func boom() {...}                                    *)
    (*    try { boom(); t += "x"; } catch (e) { t += e; }                  *)
    (*    try { nope; t += "x"; } catch (e3) { t += "u"; }                 *)
    << VarDecl("t", Str("")), FunctionDecl(5),
       Catch(<< ExprS(Call0("boom")), Note("x") >>, "e", << Plus("t", Id("e")) >>),
       Catch(<< ExprS(Id("nope")), Note("x") >>, "e3", << Note("u") >>) >>,
    (* 4: loc t = ""; func ret() {...} loc r = ret();                      *)
    (*    while (true) { try { break; } catch (e) { t += "c"; } }          *)
    (*    for i in [1, 2] { try { t += "i"; continue; }                    *)
    (*                      catch (e) { t += "c"; } }                      *)
    (*    t += "z";                                                        *)
    << VarDecl("t", Str("")), FunctionDecl(8), VarDecl("r", Call0("ret")),
       While(True, Block(<< Catch(<< Break >>, "e", << Note("c") >>) >>)),
       For("i", OneTwo, Block(<< Catch(<< Note("i"), Continue >>, "e", << Note("c") >>) >>)),
       Note("z") >>
>>

(* what each program leaves in t when an error skips the rest of the try   *)
(* block and runs the innermost catch block once, and a signal runs none   *)
TryTraces == << "aboomz", "inm5z", "fboomu", "iiz" >>

(* the catch handlers each program enters *)
TryCatches == << 1, 2, 2, 0 >>

MaxTryRuns == 4

NextTry ==
    \E line \in DOMAIN TryPrograms :
        last.count < MaxTryRuns /\ Interpret(line, TryPrograms[line])

SpecTry == InitInterpreter /\ [][NextTry]_vars

(* C10: a runtime error raised in a try block, directly, in a nested block *)
(* or call, or by throw, skips the rest of the try block; the innermost    *)
(* enclosing try/catch runs its catch block once, the catch variable being *)
(* the error's message and defined in the environment that was current     *)
(* when the try statement started, and the program goes on after the       *)
(* try/catch; return, break and continue leave a try block without running *)
(* the catch block.                                                        *)
C10_TryCatch ==
    [][ /\ last'.sig = "normal"
        /\ Global("t")' = StrV(TryTraces[last'.line])
        /\ Len(ghost'.catches) = Len(ghost.catches) + TryCatches[last'.line]
        /\ \A i \in DOMAIN ghost'.catches :
               LET c == ghost'.catches[i] IN c.scope = c.before
        /\ last'.line = 1 => Global("e")' = StrV("boom")
        /\ last'.line = 2 => (Global("e2")' = StrV("5") /\ Global("e")' = Global("e"))
        /\ last'.line = 4 => Global("r")' = IntV(1) ]_vars

C10_Witness ==
    /\ last.line = 2 /\ Global("t") = StrV("inm5z")
    /\ \E i \in DOMAIN ghost.catches :
           ghost.catches[i].message = "in" /\ ghost.catches[i].scope # Globals
    /\ Global("r") = IntV(1)

----------------------------------------------------------------------------
(* The loop variable of a for statement.                                   *)
ForPrograms == <<
    (* 1: loc x = 9; *)
    << VarDecl("x", Num(9)) >>,
    (* 2: for x in [1, 2] { loc z = x; } *)
    << For("x", OneTwo, Block(<< VarDecl("z", Id("x")) >>)) >>,
    (* 3: { for x in [1, 2] { } } *)
    << Block(<< For("x", OneTwo, Block(<<>>)) >>) >>,
    (* 4: for y in [1, 2] { } *)
    << For("y", OneTwo, Block(<<>>)) >>
>>

(* the programs whose for statement is a statement of the global scope *)
ForLoops == {2, 4}

MaxForRuns == 4

NextFor ==
    \E line \in DOMAIN ForPrograms :
        last.count < MaxForRuns /\ Interpret(line, ForPrograms[line])

SpecFor == InitInterpreter /\ [][NextFor]_vars

(* C11: a for statement of the global scope, whose body declares only in   *)
(* its own block, leaves the global scope as it was: no binding for the    *)
(* loop variable is created in it and a binding of that name it has keeps  *)
(* its value.                                                              *)
C11_ForVariableScoped ==
    [][ last'.line \in ForLoops => envStore'[Globals] = envStore[Globals] ]_vars

----------------------------------------------------------------------------
(* The minor collection on its own.                                        *)

(* GarbageCollector::collectNewGeneration(globals) *)
CollectNewGeneration ==
    /\ SetGc(collectNewGeneration(GcState, Globals).g)
    /\ last' = GcOp("collectNewGeneration")
    /\ UNCHANGED <<heapVars, interpVars, registered>>

NextMinor == NextGC \/ CollectNewGeneration

SpecMinor == InitGC /\ [][NextMinor]_vars

(* the cells of a set of ids that are reachable from the roots *)
Survivors(young, Cell(_)) == {id \in young : Cell(id) \in Reachable}

(* what a minor collection does to the sets of one kind of cell *)
MinorStep(tracked, young, old, trackedAfter, youngAfter, oldAfter, Cell(_)) ==
    /\ oldAfter = old \cup Survivors(young, Cell)
    /\ Survivors(young, Cell) \subseteq trackedAfter
    /\ trackedAfter = tracked \ (young \ Survivors(young, Cell))
    /\ youngAfter = {}

(* C12: collectNewGeneration adds to each old set exactly the young cells  *)
(* reachable from the roots, which stay tracked; removes the unreachable   *)
(* young cells from the tracked set; leaves the young sets empty; keeps    *)
(* every cell that was old; and changes no cell of the heap.               *)
C12_MinorPromotesSurvivors ==
    [][ last'.op = "collectNewGeneration" =>
          /\ MinorStep(objects, newGenerationObjects, oldGenerationObjects,
                       objects', newGenerationObjects', oldGenerationObjects', ObjV)
          /\ MinorStep(functions, newGenerationFunctions, oldGenerationFunctions,
                       functions', newGenerationFunctions', oldGenerationFunctions', FunV)
          /\ MinorStep(classes, newGenerationClasses, oldGenerationClasses,
                       classes', newGenerationClasses', oldGenerationClasses', ClsV)
          /\ UNCHANGED heapVars ]_vars

(* A minor collection has promoted an instance, the function and both      *)
(* classes and has dropped the other instance, which was registered.       *)
C12_Witness ==
    /\ last.op = "collectNewGeneration"
    /\ oldGenerationObjects = {1} /\ objects = {1} /\ ObjV(2) \in registered
    /\ oldGenerationFunctions = {1} /\ functions = {1}
    /\ oldGenerationClasses = {1, 2} /\ classes = {1, 2}
    /\ newGenerationObjects = {} /\ newGenerationFunctions = {} /\ newGenerationClasses = {}

----------------------------------------------------------------------------
(* Memory pressure: a heap of NEW_GENERATION_THRESHOLD instances, held in  *)
(* arrays of PressureFan instances each; these arrays are the elements of  *)
(* arrays of PressureFan arrays each, which are the elements of the array  *)
(* that the global x holds. The program registers the instances in         *)
(* batches, rebinds x and collects.                                        *)
PressureBatch == 250

PressureFan == 10

PressureHeap == NEW_GENERATION_THRESHOLD

(* the number of arrays of at most PressureFan elements that hold n cells *)
PressureArrays(n) == (n + PressureFan - 1) \div PressureFan

PressureLeaves == PressureArrays(PressureHeap)

PressureBranches == PressureArrays(PressureLeaves)

(* the elements of the a-th array of those that hold the cells 1..n *)
PressureElements(a, n) ==
    {c \in ((a - 1) * PressureFan + 1)..(a * PressureFan) : c <= n}

InitPressure ==
    /\ envStore = << [values |-> ("x" :> ArrV(1)), enclosing |-> 0] >>
    /\ objStore = [o \in 1..PressureHeap |-> [klass |-> 1, fields |-> EmptyMap]]
    /\ funStore = <<>>
    /\ clsStore = << [name |-> "K", superclass |-> 0, methods |-> EmptyMap] >>
    /\ arrStore = << [a \in 1..PressureBranches |-> ArrV(1 + a)] >>
                  \o [a \in 1..PressureBranches |->
                        [b \in 1..Cardinality(PressureElements(a, PressureLeaves)) |->
                            ArrV(1 + PressureBranches + (a - 1) * PressureFan + b)]]
                  \o [l \in 1..PressureLeaves |->
                        [i \in 1..Cardinality(PressureElements(l, PressureHeap)) |->
                            ObjV((l - 1) * PressureFan + i)]]
    /\ dictStore = <<>>
    /\ InterpIdle
    /\ GcIdle
    /\ last = NoOp

(* GarbageCollector::registerObject, for each of the next n instances *)
RegisterObjects(n) ==
    LET first == Cardinality(registered) + 1
        batch == {o \in first..(first + n - 1) : o <= PressureHeap}
    IN /\ first <= PressureHeap
       /\ newGenerationObjects' = newGenerationObjects \cup batch
       /\ objects' = objects \cup batch
       /\ registered' = registered \cup {ObjV(o) : o \in batch}
       /\ last' = GcOp("registerObject")
       /\ UNCHANGED <<heapVars, interpVars, functions, classes, oldGenerationObjects,
                      newGenerationFunctions, oldGenerationFunctions,
                      newGenerationClasses, oldGenerationClasses,
                      markedObjects, markedFunctions, markedClasses, incrementalStep>>

NextPressure ==
    \/ \E n \in {PressureBatch, 2 * PressureBatch} : RegisterObjects(n)
    \/ \E value \in {NullV, ArrV(1)} : GlobalDefine(value)
    \/ CollectGarbage

SpecPressure == InitPressure /\ [][NextPressure]_vars

(* C13: when at least NEW_GENERATION_THRESHOLD young instances survive the *)
(* minor collection, collectNewGeneration returns false and collectGarbage *)
(* runs the major collection, which leaves the mark sets empty.            *)
C13_PressureRunsMajor ==
    [][ ( /\ last'.op = "collectGarbage"
          /\ Cardinality(Survivors(newGenerationObjects, ObjV)) >= NEW_GENERATION_THRESHOLD )
        => ( /\ ~collectNewGeneration(GcState, Globals).result
             /\ markedObjects' = {} ) ]_vars

----------------------------------------------------------------------------
(* The creation of heap cells by the evaluator.                            *)
CellPrograms == <<
    (* 1: func id(a) { return a; } *)
    << FunctionDecl(6) >>,
    (* 2: class K { m() {...} } *)
    << ClassDecl("K", "", <<3>>) >>,
    (* 3: loc o = K(); *)
    << VarDecl("o", Call0("K")) >>,
    (* 4: loc f = o.m; *)
    << VarDecl("f", Member(Id("o"), "m")) >>
>>

MaxCellRuns == 4

NextCells ==
    \E line \in DOMAIN CellPrograms :
        last.count < MaxCellRuns /\ Interpret(line, CellPrograms[line])

SpecCells == InitInterpreter /\ [][NextCells]_vars

(* the functions made from a declaration: declared, methods, bound methods *)
DeclaredFunctions == {f \in DOMAIN funStore : funStore[f].declaration # 0}

(* C14: when interpret returns, every instance, every function made from a *)
(* declaration and every class that exists is in the collector's tracked   *)
(* set and in one of its generation sets.                                  *)
C14_CellsRegistered ==
    /\ DOMAIN objStore \subseteq objects \cap (newGenerationObjects \cup oldGenerationObjects)
    /\ DeclaredFunctions
           \subseteq functions \cap (newGenerationFunctions \cup oldGenerationFunctions)
    /\ DOMAIN clsStore \subseteq classes \cap (newGenerationClasses \cup oldGenerationClasses)

----------------------------------------------------------------------------
(* import "path";                                                          *)
ImportPrograms == <<
    (* 1: import "m3"; *)
    << Import(3) >>,
    (* 2: import "m1"; *)
    << Import(1) >>,
    (* 3: loc ev = 1; *)
    << VarDecl("ev", Num(1)) >>,
    (* 4: { import "m3"; } *)
    << Block(<< Import(3) >>) >>
>>

(* the programs that are one import statement of the global scope, and the *)
(* module each names                                                       *)
ImportStatements == {1, 2}

ImportedModule == <<3, 1>>

MaxImportRuns == 4

NextImport ==
    \E line \in DOMAIN ImportPrograms :
        last.count < MaxImportRuns /\ Interpret(line, ImportPrograms[line])

SpecImport == InitInterpreter /\ [][NextImport]_vars

(* the bindings of the __exports__ environment of a loaded module; none    *)
(* when the module has no such environment                                 *)
ModuleExports(m) ==
    LET moduleValues == envStore[moduleCache[m]].values
    IN IF "__exports__" \in DOMAIN moduleValues /\ moduleValues["__exports__"].t = "environment"
       THEN envStore[moduleValues["__exports__"].n].values
       ELSE EmptyMap

(* C15: after `import "path";` has completed in the global scope, every    *)
(* name of the module's exports is bound in the global scope to the        *)
(* exported value.                                                         *)
C15_ImportBindsExports ==
    (last.op = "interpret" /\ last.line \in ImportStatements /\ last.sig = "normal")
        => \A name \in DOMAIN ModuleExports(ImportedModule[last.line]) :
               /\ name \in DOMAIN envStore[Globals].values
               /\ envStore[Globals].values[name] = ModuleExports(ImportedModule[last.line])[name]

----------------------------------------------------------------------------
(* export {names};                                                         *)
ExportPrograms == <<
    (* 1: loc a = 1; export {a}; *)
    << VarDecl("a", Num(1)), Export(<<"a">>) >>,
    (* 2: loc b = 2; export {b}; *)
    << VarDecl("b", Num(2)), Export(<<"b">>) >>,
    (* 3: loc __exports__ = 0; *)
    << VarDecl("__exports__", Num(0)) >>,
    (* 4: { loc c = 3; export {c}; } *)
    << Block(<< VarDecl("c", Num(3)), Export(<<"c">>) >>) >>
>>

(* the programs that export from the global scope, and the name and value  *)
(* each exports                                                            *)
ExportStatements == {1, 2}

Exported == << [name |-> "a", value |-> IntV(1)], [name |-> "b", value |-> IntV(2)] >>

MaxExportRuns == 4

NextExport ==
    \E line \in DOMAIN ExportPrograms :
        last.count < MaxExportRuns /\ Interpret(line, ExportPrograms[line])

SpecExport == InitInterpreter /\ [][NextExport]_vars

(* the global scope binds __exports__ to an environment *)
HasExports == Global("__exports__").t = "environment"

ExportsValues == envStore[Global("__exports__").n].values

(* C16: an export statement of the global scope completes; afterwards the  *)
(* scope binds __exports__ to an environment that holds the exported name  *)
(* with its value; when the scope had such an environment before, it is    *)
(* the same one and holds every name it held.                              *)
C16_ExportAppends ==
    [][ last'.line \in ExportStatements =>
          /\ last'.sig = "normal"
          /\ HasExports'
          /\ Exported[last'.line].name \in DOMAIN ExportsValues'
          /\ ExportsValues'[Exported[last'.line].name] = Exported[last'.line].value
          /\ HasExports =>
                /\ Global("__exports__")' = Global("__exports__")
                /\ \A name \in DOMAIN ExportsValues :
                       name \in DOMAIN ExportsValues' ]_vars

----------------------------------------------------------------------------
(* The module system called directly: require and include of the module    *)
(* files, of a file whose load fails (2), of a file that requires another  *)
(* and then fails (4), and of a path that resolves to no file.             *)
ModulePaths == 1..(Len(Modules) + 1)

MaxModuleCalls == 4

(* the interpreter after a call of the module system that ended as r *)
ModuleCall(op, m, r) ==
    /\ envStore' = r.envStore /\ objStore' = r.objStore /\ funStore' = r.funStore
    /\ clsStore' = r.clsStore /\ arrStore' = r.arrStore
    /\ environment' = r.environment
    /\ moduleCache' = r.moduleCache
    /\ output' = r.output
    /\ ghost' = r.g
    /\ last' = [op |-> op, line |-> m, sig |-> r.sig, err |-> r.err, msg |-> r.msg,
                value |-> r.value, count |-> last.count + 1,
                statementCount |-> last.statementCount]
    /\ UNCHANGED <<dictStore, gcVars>>

(* the interpreter before a call, in a process that meets the limit        *)
(* exhaustion first                                                        *)
CallState(exhaustion) ==
    [InterpreterState EXCEPT !.exhaustion = exhaustion, !.g.reloaded = FALSE]

RequireModule(m) ==
    /\ last.count < MaxModuleCalls
    /\ ~Terminated
    /\ \E exhaustion \in Exhaustions :
           ModuleCall("requireModule", m, requireModule(m, CallState(exhaustion)))

IncludeModule(m) ==
    /\ last.count < MaxModuleCalls
    /\ ~Terminated
    /\ \E exhaustion \in Exhaustions :
           ModuleCall("includeModule", m, includeModule(m, CallState(exhaustion)))

NextModules ==
    \/ \E m \in ModulePaths : RequireModule(m)
    \/ \E m \in ModulePaths : IncludeModule(m)

SpecModules == InitInterpreter /\ [][NextModules]_vars

Cached(m) == m \in DOMAIN moduleCache

(* the call made an environment that did not exist and returned it *)
LoadedAnew ==
    /\ Len(envStore') > Len(envStore)
    /\ last'.sig = "normal" =>
          /\ last'.value.t = "environment"
          /\ last'.value.n > Len(envStore)
          /\ DOMAIN envStore'[last'.value.n].values # {}

(* C17: a require of a cached path returns the cached environment and runs *)
(* nothing; a require of a path not cached runs the file, and caches the   *)
(* environment it returns exactly when the load succeeds; a cache entry    *)
(* never changes; an include runs the file, returns a new environment and  *)
(* leaves the cache entry of its path as it was.                           *)
C17_RequireCachesIncludeReloads ==
    [][ /\ \A m \in DOMAIN moduleCache : Cached(m)' /\ moduleCache'[m] = moduleCache[m]
        /\ (last'.op = "requireModule" /\ Cached(last'.line)) =>
              /\ last'.sig = "normal"
              /\ last'.value = [t |-> "environment", n |-> moduleCache[last'.line], s |-> ""]
              /\ UNCHANGED <<heapVars, moduleCache>>
        /\ (last'.op = "requireModule" /\ ~Cached(last'.line) /\ last'.line \in DOMAIN Modules) =>
              /\ LoadedAnew
              /\ last'.line \in DOMAIN moduleCache' <=> last'.sig = "normal"
              /\ last'.sig = "normal" => moduleCache'[last'.line] = last'.value.n
        /\ (last'.op = "includeModule" /\ last'.line \in DOMAIN Modules) =>
              /\ LoadedAnew
              /\ last'.line \in DOMAIN moduleCache' <=> Cached(last'.line)
        /\ last'.line \notin DOMAIN Modules => /\ last'.sig = "error"
                                               /\ UNCHANGED <<heapVars, moduleCache>>
      ]_vars

(* a require answered from the cache after later loads, with module 2      *)
(* loaded and, its load having failed, not cached                          *)
C17_Witness ==
    /\ last.op = "requireModule" /\ last.sig = "normal"
    /\ Cached(last.line) /\ moduleCache[last.line] = last.value.n
    /\ Len(envStore) >= last.value.n + 3
    /\ ~Cached(2)
    /\ \E e \in DOMAIN envStore : "mw" \in DOMAIN envStore[e].values

----------------------------------------------------------------------------
(* The macro expander (MacroSystem). A token is its type and its text.     *)
Token(type, value) == [type |-> type, value |-> value]

MACRO == Token("MACRO", "macro")
LPAREN == Token("LPAREN", "(")
RPAREN == Token("RPAREN", ")")
COMMA == Token("COMMA", ",")
SEMICOLON == Token("SEMICOLON", ";")
PLUS == Token("PLUS", "+")
IDENTIFIER(name) == Token("IDENTIFIER", name)
NUMBER(text) == Token("NUMBER", text)

(* std::runtime_error(message) leaving process: what() is the message *)
NoMacroError == ""

(* MacroSystem::process, the parameter list of a definition: from index to *)
(* the first ')' or the end of the tokens                                  *)
RECURSIVE macroParameters(_, _, _)
macroParameters(tokens, index, parameters) ==
    IF index > Len(tokens) \/ tokens[index].type = "RPAREN"
    THEN [index |-> index, parameters |-> parameters, error |-> NoMacroError]
    ELSE IF tokens[index].type = "IDENTIFIER"
    THEN macroParameters(tokens, index + 1, Append(parameters, tokens[index].value))
    ELSE IF tokens[index].type = "COMMA"
    THEN macroParameters(tokens, index + 1, parameters)
    ELSE [index |-> index, parameters |-> parameters,
          error |-> "Expected identifier in macro parameter list"]

(* MacroSystem::process, the body of a definition: from index to the first *)
(* ';' or the end of the tokens                                            *)
RECURSIVE macroBody(_, _, _)
macroBody(tokens, index, body) ==
    IF index > Len(tokens) \/ tokens[index].type = "SEMICOLON"
    THEN [index |-> index, body |-> body]
    ELSE macroBody(tokens, index + 1, Append(body, tokens[index]))

(* MacroSystem::parseMacroArguments; level is <<parenLevel, braceLevel,    *)
(* bracketLevel>>                                                          *)
RECURSIVE parseMacroArguments(_, _, _, _, _)
parseMacroArguments(tokens, index, arguments, currentArg, level) ==
    LET type == tokens[index].type
        pushed == IF currentArg # <<>> THEN Append(arguments, currentArg) ELSE arguments
    IN IF index > Len(tokens) THEN [index |-> index, arguments |-> pushed]
       ELSE IF type = "RPAREN" /\ level[1] = 0 THEN [index |-> index, arguments |-> pushed]
       ELSE IF type = "COMMA" /\ level = <<0, 0, 0>>
       THEN parseMacroArguments(tokens, index + 1, pushed, <<>>, level)
       ELSE parseMacroArguments(tokens, index + 1, arguments, Append(currentArg, tokens[index]),
                [level EXCEPT ![1] = @ + (IF type = "LPAREN" THEN 1
                                          ELSE IF type = "RPAREN" THEN -1 ELSE 0),
                              ![2] = @ + (IF type = "LBRACE" THEN 1
                                          ELSE IF type = "RBRACE" THEN -1 ELSE 0),
                              ![3] = @ + (IF type = "LBRACKET" THEN 1
                                          ELSE IF type = "RBRACKET" THEN -1 ELSE 0)])

(* std::find(parameters.begin(), parameters.end(), token.value): the first *)
(* position of name, Len(parameters) + 1 when there is none                *)
indexOf(parameters, name) ==
    IF \E k \in DOMAIN parameters : parameters[k] = name
    THEN CHOOSE k \in DOMAIN parameters :
             parameters[k] = name /\ \A j \in 1..(k - 1) : parameters[j] # name
    ELSE Len(parameters) + 1

(* MacroSystem::replaceMacroParameters *)
RECURSIVE replaceMacroParameters(_, _, _, _)
replaceMacroParameters(body, parameters, arguments, k) ==
    IF k > Len(body) THEN <<>>
    ELSE (IF /\ body[k].type = "IDENTIFIER"
             /\ indexOf(parameters, body[k].value) <= Len(parameters)
             /\ indexOf(parameters, body[k].value) <= Len(arguments)
          THEN arguments[indexOf(parameters, body[k].value)]
          ELSE << body[k] >>)
         \o replaceMacroParameters(body, parameters, arguments, k + 1)

(* MacroSystem::expandMacro *)
expandMacro(macros, name, arguments) ==
    IF name \notin DOMAIN macros THEN [expanded |-> <<>>, error |-> NoMacroError]
    ELSE IF macros[name].isFunctionLike /\ Len(macros[name].parameters) # Len(arguments)
    THEN [expanded |-> <<>>, error |-> "Macro argument count mismatch"]
    ELSE [expanded |-> replaceMacroParameters(macros[name].body, macros[name].parameters,
                                              arguments, 1),
          error |-> NoMacroError]

(* MacroSystem::expandMacroCall(tokens, index): the expansion, and index   *)
(* as the call leaves it                                                   *)
expandMacroCall(macros, tokens, index) ==
    IF index + 1 <= Len(tokens) /\ tokens[index + 1].type = "LPAREN"
    THEN LET parsed == parseMacroArguments(tokens, index + 2, <<>>, <<>>, <<0, 0, 0>>)
         IN IF parsed.index > Len(tokens)
            THEN [index |-> parsed.index, expanded |-> <<>>,
                  error |-> "Expected ')' after macro arguments"]
            ELSE [index |-> parsed.index + 1] @@
                 expandMacro(macros, tokens[index].value, parsed.arguments)
    ELSE [index |-> index + 1] @@ expandMacro(macros, tokens[index].value, <<>>)

(* MacroSystem::process, the branch of a definition: the macro defined and *)
(* i as the branch leaves it                                               *)
macroDefinition(tokens, i) ==
    IF i + 1 > Len(tokens) \/ tokens[i + 1].type # "IDENTIFIER"
    THEN [i |-> i, error |-> "Expected macro name after 'macro'"]
    ELSE LET isFunctionLike == i + 2 <= Len(tokens) /\ tokens[i + 2].type = "LPAREN"
             list == IF isFunctionLike THEN macroParameters(tokens, i + 3, <<>>)
                     ELSE [index |-> i + 2, parameters |-> <<>>, error |-> NoMacroError]
             body == macroBody(tokens, IF isFunctionLike THEN list.index + 1 ELSE list.index,
                               <<>>)
         IN IF list.error # NoMacroError THEN [i |-> list.index, error |-> list.error]
            ELSE IF isFunctionLike /\ list.index > Len(tokens)
            THEN [i |-> list.index, error |-> "Expected ')' after macro parameters"]
            ELSE [i |-> body.index, error |-> NoMacroError, macroName |-> tokens[i + 1].value,
                  macro |-> [parameters |-> list.parameters, body |-> body.body,
                             isFunctionLike |-> isFunctionLike]]

(* the positions first..last of the token vector that exist *)
Positions(tokens, first, end) == {k \in first..end : k <= Len(tokens)}

(* MacroSystem::process, one iteration of its loop with the i++ that ends  *)
(* it. p.examined collects the positions of the tokens the iterations     *)
(* have read: the token the iteration dispatches on, the tokens its branch *)
(* reads as the definition or the invocation, and the token after a macro  *)
(* name that expandMacroCall compares with '('.                            *)
processIteration(p) ==
    LET tokens == p.tokens
        i == p.i
    IN IF tokens[i].type = "MACRO"
       THEN LET defined == macroDefinition(tokens, i)
            IN IF defined.error # NoMacroError
               THEN [p EXCEPT !.error = defined.error,
                              !.examined = @ \cup Positions(tokens, i, defined.i)]
               ELSE [p EXCEPT !.macros = (defined.macroName :> defined.macro) @@ @,
                              !.examined = @ \cup Positions(tokens, i, defined.i),
                              !.i = defined.i + 1]
       ELSE IF tokens[i].type = "IDENTIFIER" /\ tokens[i].value \in DOMAIN p.macros
       THEN LET call == expandMacroCall(p.macros, tokens, i)
            IN IF call.error # NoMacroError
               THEN [p EXCEPT !.error = call.error,
                              !.examined = @ \cup Positions(tokens, i, call.index - 1)]
               ELSE [p EXCEPT !.result = @ \o call.expanded,
                              !.examined = @ \cup Positions(tokens, i,
                                                IF call.index = i + 1 THEN i + 1
                                                ELSE call.index - 1),
                              !.i = call.index + 1]
       ELSE [p EXCEPT !.result = Append(@, tokens[i]),
                      !.examined = @ \cup {i},
                      !.i = i + 1]

(* MacroSystem::process(tokens) as it starts: result empty, no macro       *)
(* defined, i at the first token                                           *)
processStart(tokens) ==
    [op |-> "process", tokens |-> tokens, i |-> 1, result |-> <<>>,
     macros |-> [name \in {} |-> <<>>], error |-> NoMacroError, examined |-> {}]

(* The sources: three definitions, A naming itself and B, F naming A, and  *)
(* after them every run of at most MaxRun tokens.                          *)
(*   macro A A + B ; macro B 2 ; macro F ( x ) x A ;                       *)
MacroDefinitions ==
    << MACRO, IDENTIFIER("A"), IDENTIFIER("A"), PLUS, IDENTIFIER("B"), SEMICOLON,
       MACRO, IDENTIFIER("B"), NUMBER("2"), SEMICOLON,
       MACRO, IDENTIFIER("F"), LPAREN, IDENTIFIER("x"), RPAREN,
           IDENTIFIER("x"), IDENTIFIER("A"), SEMICOLON >>

RunTokens == {MACRO, IDENTIFIER("A"), IDENTIFIER("F"), LPAREN, RPAREN, COMMA, NUMBER("1")}

MaxRun == 4

TokenRuns == UNION {[1..n -> RunTokens] : n \in 0..MaxRun}

InitMacro ==
    /\ envStore = <<NewEnvironment(0)>>
    /\ objStore = <<>> /\ funStore = <<>> /\ clsStore = <<>>
    /\ arrStore = <<>> /\ dictStore = <<>>
    /\ InterpIdle
    /\ GcIdle
    /\ \E run \in TokenRuns : last = processStart(MacroDefinitions \o run)

(* for (i = 0; i < tokens.size(); i++) { ... } *)
ProcessIteration ==
    /\ last.error = NoMacroError
    /\ last.i <= Len(last.tokens)
    /\ last' = processIteration(last)
    /\ UNCHANGED <<heapVars, interpVars, gcVars>>

NextMacro == ProcessIteration

SpecMacro == InitMacro /\ [][NextMacro]_vars

(* C18: every iteration that does not throw moves i forward, so the loop   *)
(* ends within as many iterations as there are tokens; every token it      *)
(* moves past has been examined by it, so each token is examined once; the *)
(* tokens emitted before stay as they are, and an invocation without       *)
(* arguments emits the body as defined, macro names in it included.        *)
C18_ProcessOnePass ==
    [][ /\ last'.error = NoMacroError =>
              /\ last'.i > last.i
              /\ \A k \in last.i..(last'.i - 1) : k <= Len(last.tokens) => k \in last'.examined
        /\ Len(last'.result) >= Len(last.result)
        /\ SubSeq(last'.result, 1, Len(last.result)) = last.result
        /\ ( /\ last'.error = NoMacroError
             /\ last.tokens[last.i].type = "IDENTIFIER"
             /\ last.tokens[last.i].value \in DOMAIN last.macros
             /\ ~(last.i + 1 <= Len(last.tokens) /\ last.tokens[last.i + 1].type = "LPAREN") )
           => last'.result = last.result \o last.macros[last.tokens[last.i].value].body
      ]_vars

----------------------------------------------------------------------------
(* The lexer (Lexer). A source is the sequence of its characters, each a   *)
(* string of length one; start and current count from 1. A token is its    *)
(* type and its text: line and column are not modelled.                    *)

(* Lexer::Lexer: the keyword table *)
keywords ==
    ("loc" :> "LOC") @@ ("func" :> "FUNC") @@ ("class" :> "CLASS") @@
    ("if" :> "IF") @@ ("elif" :> "ELIF") @@ ("else" :> "ELSE") @@
    ("then" :> "THEN") @@ ("while" :> "WHILE") @@ ("do" :> "DO") @@
    ("for" :> "FOR") @@ ("in" :> "IN") @@ ("return" :> "RETURN") @@
    ("const" :> "CONST") @@ ("new" :> "NEW") @@ ("super" :> "SUPER") @@
    ("this" :> "THIS") @@ ("try" :> "TRY") @@ ("catch" :> "CATCH") @@
    ("throw" :> "THROW") @@ ("public" :> "PUBLIC") @@ ("protected" :> "PROTECTED") @@
    ("private" :> "PRIVATE") @@ ("import" :> "IMPORT") @@ ("export" :> "EXPORT") @@
    ("from" :> "FROM") @@ ("as" :> "AS") @@ ("require" :> "REQUIRE") @@
    ("include" :> "INCLUDE") @@ ("namespace" :> "NAMESPACE") @@ ("macro" :> "MACRO") @@
    ("async" :> "ASYNC") @@ ("await" :> "AWAIT") @@ ("true" :> "TRUE") @@
    ("false" :> "FALSE") @@ ("null" :> "NULL_KEYWORD") @@ ("int" :> "TYPE_INT") @@
    ("float" :> "TYPE_FLOAT") @@ ("bool" :> "TYPE_BOOL") @@ ("string" :> "TYPE_STRING") @@
    ("array" :> "TYPE_ARRAY") @@ ("dict" :> "TYPE_DICT")

(* std::isalpha and std::isalnum, for the characters the sources are       *)
(* written with                                                            *)
Letters == {"a", "b", "c", "d", "e", "f", "g", "h", "i", "j", "k", "l", "m",
            "n", "o", "p", "q", "r", "s", "t", "u", "v", "w", "x", "y", "z"}

Digits == {"0", "1", "2", "3", "4", "5", "6", "7", "8", "9"}

(* Lexer::Lexer(source) *)
Lexer(source) == [source |-> source, start |-> 1, current |-> 1, tokens |-> <<>>,
                  matched |-> FALSE]

(* Lexer::peek: the character at current, "\0" at the end *)
peek(lx) == IF lx.current > Len(lx.source) THEN "\\0" ELSE lx.source[lx.current]

(* Lexer::match(expected); lx.matched is what it returns *)
match(lx, expected) ==
    IF lx.current > Len(lx.source) THEN [lx EXCEPT !.matched = FALSE]
    ELSE IF lx.source[lx.current] # expected THEN [lx EXCEPT !.matched = FALSE]
    ELSE [lx EXCEPT !.current = @ + 1, !.matched = TRUE]

(* Lexer::skipComment, called with current after the characters tokenize   *)
(* has consumed                                                            *)
skipComment(lx) ==
    LET source == lx.source
        (* while (!isAtEnd() && peek() != '\n') advance(); *)
        lineEnd == CHOOSE k \in lx.current..(Len(source) + 1) :
                       /\ k > Len(source) \/ source[k] = "\n"
                       /\ \A j \in lx.current..(k - 1) : source[j] # "\n"
        closes(k) == source[k] = "*" /\ k + 1 <= Len(source) /\ source[k + 1] = "/"
        (* advance(); then to the end, or past the first "*/" *)
        blockEnd == IF \E k \in (lx.current + 1)..Len(source) : closes(k)
                    THEN 2 + CHOOSE k \in (lx.current + 1)..Len(source) :
                                 closes(k) /\ \A j \in (lx.current + 1)..(k - 1) : ~closes(j)
                    ELSE Len(source) + 1
    IN IF source[lx.start] = "#" THEN [lx EXCEPT !.current = lineEnd]
       ELSE IF source[lx.start] = "/" /\ peek(lx) = "/" THEN [lx EXCEPT !.current = lineEnd]
       ELSE IF source[lx.start] = "/" /\ peek(lx) = "*" THEN [lx EXCEPT !.current = blockEnd]
       ELSE lx

(* source.substr(first, end - first) *)
RECURSIVE substr(_, _, _)
substr(source, first, end) ==
    IF first >= end THEN "" ELSE source[first] \o substr(source, first + 1, end)

(* Lexer::readIdentifier *)
readIdentifier(lx) ==
    LET source == lx.source
        isalnum(k) == source[k] \in Letters \cup Digits \cup {"_"}
        end == CHOOSE k \in lx.current..(Len(source) + 1) :
                   /\ k > Len(source) \/ ~isalnum(k)
                   /\ \A j \in lx.current..(k - 1) : isalnum(j)
        text == substr(source, lx.start, end)
    IN [lx EXCEPT !.current = end,
                  !.tokens = Append(@, Token(IF text \in DOMAIN keywords THEN keywords[text]
                                             ELSE "IDENTIFIER", text))]

(* std::isxdigit *)
HexDigits == Digits \cup {"a", "b", "c", "d", "e", "f", "A", "B", "C", "D", "E", "F"}

(* Lexer::readNumber, its loop: the position after the last character of   *)
(* the number; base is 16, 2 or 8 after a prefix and 10 without one        *)
RECURSIVE numberEnd(_, _, _, _)
numberEnd(source, current, base, isFloat) ==
    LET c == source[current]
        signed == current + 1 <= Len(source) /\ source[current + 1] \in {"+", "-"}
    IN IF current > Len(source) THEN current
       ELSE IF base = 16
       THEN IF c \in HexDigits THEN numberEnd(source, current + 1, base, isFloat) ELSE current
       ELSE IF base = 2
       THEN IF c \in {"0", "1"} THEN numberEnd(source, current + 1, base, isFloat) ELSE current
       ELSE IF base = 8
       THEN IF c \in {"0", "1", "2", "3", "4", "5", "6", "7"}
            THEN numberEnd(source, current + 1, base, isFloat) ELSE current
       ELSE IF c \in Digits THEN numberEnd(source, current + 1, base, isFloat)
       ELSE IF c = "." THEN IF isFloat THEN current
                            ELSE numberEnd(source, current + 1, base, TRUE)
       ELSE IF c \in {"e", "E"}
       THEN numberEnd(source, IF signed THEN current + 2 ELSE current + 1, base, TRUE)
       ELSE current

(* Lexer::readNumber: the prefix is looked for after the first digit,      *)
(* whichever digit it is; the token is NUMBER for every number             *)
readNumber(lx) ==
    LET base == IF peek(lx) \in {"x", "X"} THEN 16
                ELSE IF peek(lx) \in {"b", "B"} THEN 2
                ELSE IF peek(lx) \in {"o", "O"} THEN 8
                ELSE 10
        end == numberEnd(lx.source, IF base = 10 THEN lx.current ELSE lx.current + 1,
                         base, FALSE)
    IN [lx EXCEPT !.current = end,
                  !.tokens = Append(@, Token("NUMBER", substr(lx.source, lx.start, end)))]

(* Lexer::tokenize, one iteration of its loop: start = current, advance(), *)
(* and the cases of the switch for the characters the sources are written  *)
(* with                                                                    *)
scanToken(lx) ==
    LET c == lx.source[lx.current]
        advanced == [lx EXCEPT !.start = lx.current, !.current = @ + 1]
        push(type, text, l) == [l EXCEPT !.tokens = Append(@, Token(type, text))]
    IN CASE c \in {" ", "\t", "\r", "\n"} -> advanced
         [] c = "#" -> skipComment(advanced)
         [] c = "/" -> IF match(advanced, "/").matched THEN skipComment(match(advanced, "/"))
                       ELSE IF match(advanced, "*").matched
                       THEN skipComment(match(advanced, "*"))
                       ELSE push("DIVIDE", "/", advanced)
         [] c = "*" -> IF match(advanced, "=").matched
                       THEN push("MULTIPLY_ASSIGN", "*=", match(advanced, "="))
                       ELSE push("MULTIPLY", "*", advanced)
         [] c = ";" -> push("SEMICOLON", ";", advanced)
         [] c \in Digits -> readNumber(advanced)
         [] c = "." -> IF match(advanced, ".").matched
                       THEN IF match(match(advanced, "."), ".").matched
                            THEN push("ELLIPSIS", "...", match(match(advanced, "."), "."))
                            ELSE push("ERROR", "..", match(advanced, "."))
                       ELSE push("DOT", ".", advanced)
         [] OTHER -> IF c \in Letters \cup {"_"} THEN readIdentifier(advanced)
                     ELSE push("ERROR", c, advanced)

(* Lexer::tokenize: while (!isAtEnd()) { ... } *)
RECURSIVE scanTokens(_)
scanTokens(lx) ==
    IF lx.current > Len(lx.source) THEN lx ELSE scanTokens(scanToken(lx))

(* Lexer(source).tokenize() *)
tokenize(source) == Append(scanTokens(Lexer(source)).tokens, Token("END_OF_FILE", ""))

(* lexer.tokenize() of the source drawn *)
Tokenize ==
    /\ last.op = "source"
    /\ last' = [op |-> "tokenize", source |-> last.source, tokens |-> tokenize(last.source)]
    /\ UNCHANGED <<heapVars, interpVars, gcVars>>

NextLexer == Tokenize

InitLexer(sources) ==
    /\ envStore = <<NewEnvironment(0)>>
    /\ objStore = <<>> /\ funStore = <<>> /\ clsStore = <<>>
    /\ arrStore = <<>> /\ dictStore = <<>>
    /\ InterpIdle
    /\ GcIdle
    /\ \E source \in sources : last = [op |-> "source", source |-> source]

----------------------------------------------------------------------------
(* Comments: every source of at most MaxSource characters written with a   *)
(* letter, the characters that open and close comments, newline and space. *)
CommentCharacters == {"a", "/", "*", "#", "\n", " "}

MaxSource == 5

CommentSources == UNION {[1..n -> CommentCharacters] : n \in 0..MaxSource}

InitComments == InitLexer(CommentSources)

SpecComments == InitComments /\ [][NextLexer]_vars

(* the first position from k on that holds a newline, the position after   *)
(* the last character when there is none                                   *)
EndOfLine(source, k) ==
    CHOOSE e \in k..(Len(source) + 1) :
        /\ e > Len(source) \/ source[e] = "\n"
        /\ \A j \in k..(e - 1) : source[j] # "\n"

(* the position after the first "*/" that starts at k or later, the        *)
(* position after the last character when there is none                    *)
RECURSIVE EndOfBlock(_, _)
EndOfBlock(source, k) ==
    IF k + 1 > Len(source) THEN Len(source) + 1
    ELSE IF source[k] = "*" /\ source[k + 1] = "/" THEN k + 2
    ELSE EndOfBlock(source, k + 1)

Opens(source, k, text) ==
    k + 1 <= Len(source) /\ source[k] = "/" /\ source[k + 1] = text

(* the source with each comment replaced by a space *)
RECURSIVE Uncommented(_, _)
Uncommented(source, k) ==
    IF k > Len(source) THEN <<>>
    ELSE IF source[k] = "#" \/ Opens(source, k, "/")
    THEN <<" ">> \o Uncommented(source, EndOfLine(source, k))
    ELSE IF Opens(source, k, "*")
    THEN <<" ">> \o Uncommented(source, EndOfBlock(source, k + 2))
    ELSE <<source[k]>> \o Uncommented(source, k + 1)

(* C19: the tokens of a source are the tokens of the source with each      *)
(* comment (# or // to the end of the line, /* to the first */ after it)   *)
(* replaced by a space.                                                    *)
C19_CommentsSkipped ==
    last.op = "tokenize" => last.tokens = tokenize(Uncommented(last.source, 1))

----------------------------------------------------------------------------
(* Keywords: every word of the keyword table, break and continue, each     *)
(* alone and followed by a letter.                                         *)
Spell ==
    ("loc" :> <<"l", "o", "c">>) @@ ("func" :> <<"f", "u", "n", "c">>) @@
    ("class" :> <<"c", "l", "a", "s", "s">>) @@ ("if" :> <<"i", "f">>) @@
    ("elif" :> <<"e", "l", "i", "f">>) @@ ("else" :> <<"e", "l", "s", "e">>) @@
    ("then" :> <<"t", "h", "e", "n">>) @@ ("while" :> <<"w", "h", "i", "l", "e">>) @@
    ("do" :> <<"d", "o">>) @@ ("for" :> <<"f", "o", "r">>) @@
    ("in" :> <<"i", "n">>) @@ ("return" :> <<"r", "e", "t", "u", "r", "n">>) @@
    ("const" :> <<"c", "o", "n", "s", "t">>) @@ ("new" :> <<"n", "e", "w">>) @@
    ("super" :> <<"s", "u", "p", "e", "r">>) @@ ("this" :> <<"t", "h", "i", "s">>) @@
    ("try" :> <<"t", "r", "y">>) @@ ("catch" :> <<"c", "a", "t", "c", "h">>) @@
    ("throw" :> <<"t", "h", "r", "o", "w">>) @@ ("public" :> <<"p", "u", "b", "l", "i", "c">>) @@
    ("protected" :> <<"p", "r", "o", "t", "e", "c", "t", "e", "d">>) @@ ("private" :> <<"p", "r", "i", "v", "a", "t", "e">>) @@
    ("import" :> <<"i", "m", "p", "o", "r", "t">>) @@ ("export" :> <<"e", "x", "p", "o", "r", "t">>) @@
    ("from" :> <<"f", "r", "o", "m">>) @@ ("as" :> <<"a", "s">>) @@
    ("require" :> <<"r", "e", "q", "u", "i", "r", "e">>) @@ ("include" :> <<"i", "n", "c", "l", "u", "d", "e">>) @@
    ("namespace" :> <<"n", "a", "m", "e", "s", "p", "a", "c", "e">>) @@ ("macro" :> <<"m", "a", "c", "r", "o">>) @@
    ("async" :> <<"a", "s", "y", "n", "c">>) @@ ("await" :> <<"a", "w", "a", "i", "t">>) @@
    ("true" :> <<"t", "r", "u", "e">>) @@ ("false" :> <<"f", "a", "l", "s", "e">>) @@
    ("null" :> <<"n", "u", "l", "l">>) @@ ("int" :> <<"i", "n", "t">>) @@
    ("float" :> <<"f", "l", "o", "a", "t">>) @@ ("bool" :> <<"b", "o", "o", "l">>) @@
    ("string" :> <<"s", "t", "r", "i", "n", "g">>) @@ ("array" :> <<"a", "r", "r", "a", "y">>) @@
    ("dict" :> <<"d", "i", "c", "t">>) @@ ("break" :> <<"b", "r", "e", "a", "k">>) @@
    ("continue" :> <<"c", "o", "n", "t", "i", "n", "u", "e">>)

KeywordSources == {Spell[word] : word \in DOMAIN Spell}
                      \cup {Append(Spell[word], "x") : word \in DOMAIN Spell}

InitKeywords == InitLexer(KeywordSources)

SpecKeywords == InitKeywords /\ [][NextLexer]_vars

(* the keywords of the statement forms and type annotations, each with the *)
(* token type the parser matches it by                                     *)
ParserKeywords ==
    ("loc" :> "LOC") @@ ("const" :> "CONST") @@ ("func" :> "FUNC") @@
    ("class" :> "CLASS") @@ ("if" :> "IF") @@ ("elif" :> "ELIF") @@
    ("else" :> "ELSE") @@ ("then" :> "THEN") @@ ("while" :> "WHILE") @@
    ("for" :> "FOR") @@ ("in" :> "IN") @@ ("return" :> "RETURN") @@
    ("break" :> "BREAK") @@ ("continue" :> "CONTINUE") @@ ("try" :> "TRY") @@
    ("catch" :> "CATCH") @@ ("throw" :> "THROW") @@ ("import" :> "IMPORT") @@
    ("export" :> "EXPORT") @@ ("from" :> "FROM") @@ ("as" :> "AS") @@
    ("namespace" :> "NAMESPACE") @@ ("macro" :> "MACRO") @@ ("true" :> "TRUE") @@
    ("false" :> "FALSE") @@ ("null" :> "NULL_KEYWORD") @@ ("int" :> "TYPE_INT") @@
    ("float" :> "TYPE_FLOAT") @@ ("bool" :> "TYPE_BOOL") @@ ("string" :> "TYPE_STRING") @@
    ("array" :> "TYPE_ARRAY") @@ ("dict" :> "TYPE_DICT")

(* C20: lexing the text of a keyword gives one token of the keyword's type *)
(* and END_OF_FILE.                                                        *)
C20_KeywordsLexed ==
    \A word \in DOMAIN ParserKeywords :
        (last.op = "tokenize" /\ last.source = Spell[word])
            => /\ Len(last.tokens) = 2
               /\ last.tokens[1] = Token(ParserKeywords[word], word)
               /\ last.tokens[1].type # "IDENTIFIER"
               /\ last.tokens[2] = Token("END_OF_FILE", "")

----------------------------------------------------------------------------
(* Slices of the array a = [1, 2, 3, 4, 5]: `loc a = [1, 2, 3, 4, 5];` and *)
(* `loc s = a[start:stop:step];` for every choice of the three, each given *)
(* or left out.                                                            *)
Given(n) == [given |-> TRUE, n |-> n]

NotGiven == [given |-> FALSE, n |-> 0]

SliceBounds == {NotGiven} \cup {Given(n) : n \in {-1, 0, 1, 4, 5}}

SliceSteps == {NotGiven} \cup {Given(n) : n \in {-1, 1, 2}}

GivenExpr(g) == IF g.given THEN Num(g.n) ELSE NoExpr

SliceLines ==
    {[op |-> "loc", start |-> NotGiven, stop |-> NotGiven, step |-> NotGiven]}
        \cup {[op |-> "slice", start |-> start, stop |-> stop, step |-> step] :
                 start \in SliceBounds, stop \in SliceBounds, step \in SliceSteps}

SlicePrograms ==
    [line \in SliceLines |->
        IF line.op = "loc"
        THEN << VarDecl("a", ArrayE(<< Num(1), Num(2), Num(3), Num(4), Num(5) >>)) >>
        ELSE << VarDecl("s", Slice(Id("a"), GivenExpr(line.start), GivenExpr(line.stop),
                                   GivenExpr(line.step))) >>]

MaxSliceRuns == 2

NextSlice ==
    \E line \in DOMAIN SlicePrograms :
        last.count < MaxSliceRuns /\ Interpret(line, SlicePrograms[line])

SpecSlice == InitInterpreter /\ [][NextSlice]_vars

RECURSIVE Reversed(_)
Reversed(seq) ==
    IF seq = <<>> THEN <<>> ELSE Append(Reversed(Tail(seq)), Head(seq))

(* C21: a slice of the array a is a new array and leaves a as it was; with *)
(* step 1 or none and 0 <= start <= stop <= len it holds the elements at   *)
(* start..stop-1 in order; with no bounds and step -1 it holds the         *)
(* elements of a in reverse order.                                         *)
C21_SliceElements ==
    [][ (last'.line.op = "slice" /\ Global("a").t = "array") =>
          LET a == arrStore[Global("a").n]
              line == last'.line
          IN /\ last'.sig = "normal"
             /\ Global("s")'.t = "array"
             /\ Global("s")'.n > Len(arrStore)
             /\ arrStore'[Global("a").n] = a
             /\ ( /\ line.step \in {NotGiven, Given(1)}
                  /\ line.start.given /\ line.stop.given
                  /\ 0 <= line.start.n /\ line.start.n <= line.stop.n /\ line.stop.n <= Len(a) )
                => arrStore'[Global("s")'.n] = SubSeq(a, line.start.n + 1, line.stop.n)
             /\ (~line.start.given /\ ~line.stop.given /\ line.step = Given(-1))
                => arrStore'[Global("s")'.n] = Reversed(a)
      ]_vars

----------------------------------------------------------------------------
(* Assignments: `loc x = n;` and `x op n;` for plain = and every compound  *)
(* assignment operator.                                                    *)
CompoundOps == {"+=", "-=", "*=", "/=", "%=", "&=", "|=", "^=", "<<=", ">>="}

AssignLines ==
    {[stmt |-> "loc", op |-> "=", n |-> n] : n \in {6, 7}}
        \cup {[stmt |-> "assign", op |-> op, n |-> n] : op \in CompoundOps \cup {"="}, n \in {2, 3}}

AssignPrograms ==
    [line \in AssignLines |->
        IF line.stmt = "loc" THEN << VarDecl("x", Num(line.n)) >>
        ELSE << ExprS(AssignOp(Id("x"), line.op, Num(line.n))) >>]

MaxAssignRuns == 3

NextAssign ==
    \E line \in DOMAIN AssignPrograms :
        last.count < MaxAssignRuns /\ Interpret(line, AssignPrograms[line])

SpecAssign == InitInterpreter /\ [][NextAssign]_vars

(* a & b, a | b and a ^ b of naturals, bit by bit *)
RECURSIVE Bitwise(_, _, _)
Bitwise(op, a, b) ==
    IF a = 0 /\ b = 0 THEN 0
    ELSE LET x == a % 2
             y == b % 2
             bit == IF op = "&" THEN (IF x = 1 /\ y = 1 THEN 1 ELSE 0)
                    ELSE IF op = "|" THEN (IF x = 1 \/ y = 1 THEN 1 ELSE 0)
                    ELSE (IF x # y THEN 1 ELSE 0)
         IN bit + 2 * Bitwise(op, a \div 2, b \div 2)

(* a op b for the operator of the compound assignment op=, on naturals *)
Combined(op, a, b) ==
    CASE op = "+=" -> a + b
      [] op = "-=" -> a - b
      [] op = "*=" -> a * b
      [] op = "/=" -> a \div b
      [] op = "%=" -> a % b
      [] op = "&=" -> Bitwise("&", a, b)
      [] op = "|=" -> Bitwise("|", a, b)
      [] op = "^=" -> Bitwise("^", a, b)
      [] op = "<<=" -> a * 2 ^ b
      [] op = ">>=" -> a \div 2 ^ b

(* C22: after `x op= e` the variable x holds (old value of x) op (value of *)
(* e); after `x = e` it holds the value of e.                              *)
C22_CompoundAssignment ==
    [][ (last'.line.stmt = "assign" /\ Global("x").t = "int") =>
          /\ last'.sig = "normal"
          /\ last'.line.op = "=" => Global("x")' = IntV(last'.line.n)
          /\ last'.line.op \in CompoundOps =>
                Global("x")' = IntV(Combined(last'.line.op, Global("x").n, last'.line.n))
      ]_vars

----------------------------------------------------------------------------
(* Number literals. An int is IntV; a double is written here as mantissa   *)
(* times a power of ten, the mantissa without trailing zeros.              *)
Float(mantissa, exponent) == [t |-> "float", n |-> mantissa, e |-> exponent]

RECURSIVE NormalFloat(_, _)
NormalFloat(mantissa, exponent) ==
    IF mantissa = 0 THEN Float(0, 0)
    ELSE IF mantissa % 10 = 0 THEN NormalFloat(mantissa \div 10, exponent + 1)
    ELSE Float(mantissa, exponent)

DigitValue ==
    ("0" :> 0) @@ ("1" :> 1) @@ ("2" :> 2) @@ ("3" :> 3) @@ ("4" :> 4) @@ ("5" :> 5) @@
    ("6" :> 6) @@ ("7" :> 7) @@ ("8" :> 8) @@ ("9" :> 9) @@ ("a" :> 10) @@ ("b" :> 11) @@
    ("c" :> 12) @@ ("d" :> 13) @@ ("e" :> 14) @@ ("f" :> 15)

(* the digits of text from position i on, read in base: the number they    *)
(* write after acc, and the position after them                            *)
RECURSIVE readDigits(_, _, _, _, _)
readDigits(text, i, digits, base, acc) ==
    IF i <= Len(text) /\ text[i] \in digits
    THEN readDigits(text, i + 1, digits, base, acc * base + DigitValue[text[i]])
    ELSE [value |-> acc, end |-> i]

(* std::stoi(text): the decimal digits at the start of text *)
stoi(text) == readDigits(text, 1, Digits, 10, 0).value

(* std::stod(text) of a text that starts with a decimal digit and has no   *)
(* prefix: digits, a fraction, and an exponent when digits follow the e    *)
stod(text) ==
    LET whole == readDigits(text, 1, Digits, 10, 0)
        hasPoint == whole.end <= Len(text) /\ text[whole.end] = "."
        fraction == IF hasPoint THEN readDigits(text, whole.end + 1, Digits, 10, whole.value)
                    ELSE whole
        fractionDigits == IF hasPoint THEN fraction.end - (whole.end + 1) ELSE 0
        hasE == fraction.end <= Len(text) /\ text[fraction.end] \in {"e", "E"}
        sign == IF hasE /\ fraction.end + 1 <= Len(text) /\ text[fraction.end + 1] \in {"+", "-"}
                THEN text[fraction.end + 1] ELSE ""
        first == fraction.end + (IF sign = "" THEN 1 ELSE 2)
        power == IF hasE THEN readDigits(text, first, Digits, 10, 0)
                 ELSE [value |-> 0, end |-> first]
        exponent == IF hasE /\ power.end > first
                    THEN (IF sign = "-" THEN 0 - power.value ELSE power.value)
                    ELSE 0
    IN NormalFloat(fraction.value, exponent - fractionDigits)

(* Interpreter::visitLiteralExpr, case TokenType::NUMBER, of the token     *)
(* whose text is written with the characters text                          *)
visitNumberLiteral(text) ==
    IF \E i \in DOMAIN text : text[i] = "." THEN stod(text) ELSE IntV(stoi(text))

(* the characters of a token text that is part of the source *)
Characters(text, source) ==
    CHOOSE chars \in {SubSeq(source, i, j) : i \in 1..Len(source), j \in 0..Len(source)} :
        substr(chars, 1, Len(chars) + 1) = text

(* the parser makes a LiteralExpr of each NUMBER token, and the evaluator  *)
(* visits it                                                               *)
VisitLiterals ==
    /\ last.op = "tokenize"
    /\ last' = [op |-> "literals", source |-> last.source, tokens |-> last.tokens,
                values |-> [i \in {j \in DOMAIN last.tokens : last.tokens[j].type = "NUMBER"} |->
                               visitNumberLiteral(Characters(last.tokens[i].value,
                                                             last.source))]]
    /\ UNCHANGED <<heapVars, interpVars, gcVars>>

(* The sources: a digit and at most MaxLexeme - 1 characters after it      *)
NumberCharacters == {"0", "1", "3", ".", "e", "x", "b", "o"}

MaxLexeme == 4

NumberSources ==
    UNION {{<<d>> \o rest : d \in {"0", "1", "3"}, rest \in [1..n -> NumberCharacters]} :
               n \in 0..(MaxLexeme - 1)}

InitNumbers == InitLexer(NumberSources)

NextNumbers == Tokenize \/ VisitLiterals

SpecNumbers == InitNumbers /\ [][NextNumbers]_vars

(* The number a lexeme denotes: a prefix 0x, 0b or 0o and digits of that   *)
(* base, or decimal digits, an optional fraction and an optional exponent. *)
BaseOf(text) ==
    IF Len(text) >= 3 /\ text[1] = "0" /\ text[2] \in {"x", "X", "b", "B", "o", "O"}
    THEN (IF text[2] \in {"x", "X"} THEN 16 ELSE IF text[2] \in {"b", "B"} THEN 2 ELSE 8)
    ELSE 10

DigitsOf(base) == {c \in DOMAIN DigitValue : DigitValue[c] < base}

Denoted(text) ==
    LET whole == readDigits(text, 1, Digits, 10, 0)
        hasPoint == whole.end <= Len(text) /\ text[whole.end] = "."
        fraction == IF hasPoint THEN readDigits(text, whole.end + 1, Digits, 10, whole.value)
                    ELSE whole
        hasE == fraction.end <= Len(text) /\ text[fraction.end] \in {"e", "E"}
        power == IF hasE THEN readDigits(text, fraction.end + 1, Digits, 10, 0) ELSE fraction
        prefixed == readDigits(text, 3, DigitsOf(BaseOf(text)), BaseOf(text), 0)
    IN IF BaseOf(text) # 10
       THEN [wellFormed |-> prefixed.end = Len(text) + 1, value |-> IntV(prefixed.value)]
       ELSE [wellFormed |-> /\ whole.end > 1
                            /\ hasPoint => fraction.end > whole.end + 1
                            /\ hasE => power.end > fraction.end + 1
                            /\ power.end = Len(text) + 1,
             value |-> IF hasPoint \/ hasE
                       THEN NormalFloat(fraction.value,
                                        (IF hasE THEN power.value ELSE 0)
                                            - (IF hasPoint THEN fraction.end - (whole.end + 1)
                                               ELSE 0))
                       ELSE IntV(whole.value)]

(* C23: the literal of a NUMBER token evaluates to the number its lexeme   *)
(* denotes: a float when the lexeme has a `.` or an exponent, an int       *)
(* otherwise and for the lexemes with a base prefix.                       *)
C23_NumberLiterals ==
    last.op = "literals" =>
        \A i \in DOMAIN last.values :
            LET denoted == Denoted(Characters(last.tokens[i].value, last.source))
            IN denoted.wellFormed =>
                   /\ last.values[i].t = denoted.value.t
                   /\ last.values[i].n = denoted.value.n
                   /\ last.values[i].t = "float" => last.values[i].e = denoted.value.e

----------------------------------------------------------------------------
(* The incremental collector. The program of the collector specification  *)
(* runs between the calls of collectGarbageIncremental(globals).           *)
CollectGarbageIncremental ==
    /\ \E slice \in Slices(GcState) :
           SetGc(collectGarbageIncremental(GcState, Globals, slice))
    /\ last' = GcOp("collectGarbageIncremental")
    /\ UNCHANGED <<heapVars, interpVars, registered>>

(* The program registers its cells in the order it allocates them *)
AllocationOrder == << ObjV(1), ObjV(2), FunV(1), ClsV(2), ClsV(1) >>

RegisterAllocated(i) ==
    /\ i = Cardinality(registered) + 1
    /\ \/ AllocationOrder[i].t = "object" /\ RegisterObject(AllocationOrder[i].n)
       \/ AllocationOrder[i].t = "function" /\ RegisterFunction(AllocationOrder[i].n)
       \/ AllocationOrder[i].t = "class" /\ RegisterClass(AllocationOrder[i].n)

IncrementalRootValues == {NullV, ObjV(1), ClsV(1)}

NextIncremental ==
    \/ \E i \in DOMAIN AllocationOrder : RegisterAllocated(i)
    \/ \E value \in IncrementalRootValues : GlobalDefine(value)
    \/ FieldSet(1, ObjV(2))
    \/ CollectGarbage
    \/ CollectGarbageIncremental

SpecIncremental == InitGC /\ [][NextIncremental]_vars

(* C24: no step removes from tracking a cell that is reachable from the    *)
(* roots at that moment; this includes the cells the program registers and *)
(* stores in a global or a field between the calls of an incremental cycle.*)
C24_NoReachableCellRemoved ==
    [][ \A cell \in TrackedCells : cell \in Reachable => cell \in TrackedCells' ]_vars

(* C26: the mark sets are empty between collections: after every return   *)
(* of collectGarbage and after the sweep phase of an incremental cycle     *)
(* (the call that sets the counter back to 0).                             *)
C26_MarkSetsEmptyBetweenCollections ==
    ( \/ last.op = "collectGarbage"
      \/ last.op = "collectGarbageIncremental" /\ incrementalStep = 0 )
        => markedObjects = {} /\ markedFunctions = {} /\ markedClasses = {}

(* A complete incremental cycle of the calls a caller keeps making. The    *)
(* program registers its cells and rebinds the global between the calls.   *)
NextCycle ==
    \/ \E i \in DOMAIN AllocationOrder : RegisterAllocated(i)
    \/ \E value \in IncrementalRootValues : GlobalDefine(value)
    \/ CollectGarbageIncremental

(* A cycle that is continued: the caller goes on calling                   *)
(* collectGarbageIncremental, which is enabled in every state.             *)
SpecCycle == InitGC /\ [][NextCycle]_vars /\ WF_vars(CollectGarbageIncremental)

MarkedCells ==
    {ObjV(o) : o \in markedObjects} \cup {FunV(f) : f \in markedFunctions}
        \cup {ClsV(k) : k \in markedClasses}

RootMarks == markEnvironment(Globals, NoMarks)

(* one call of collectGarbageIncremental runs the phase the counter names  *)
OnePhase ==
    last'.op = "collectGarbageIncremental" =>
        IF incrementalStep = 0
        THEN /\ incrementalStep' = 1
             /\ markedObjects' = RootMarks.o /\ markedFunctions' = RootMarks.f
             /\ markedClasses' = RootMarks.c
             /\ TrackedCells' = TrackedCells
        ELSE IF incrementalStep < stepsPerCycle
        THEN /\ incrementalStep' = incrementalStep + 1
             /\ MarkedCells \subseteq MarkedCells'
             /\ TrackedCells' = TrackedCells
        ELSE /\ incrementalStep' = 0
             /\ TrackedCells' = TrackedCells \cap MarkedCells
             /\ MarkedCells' = {}

(* C27: collectGarbageIncremental advances the cycle by one phase per      *)
(* call: phase 0 at counter 0, a marking step at counters 1..9, the sweep  *)
(* and the reset at counter 10 and in no other call; no other operation    *)
(* moves the counter, which stays within 0..stepsPerCycle; and a cycle     *)
(* that is continued reaches its sweep.                                    *)
C27_OnePhasePerCall ==
    /\ [](incrementalStep \in 0..stepsPerCycle)
    /\ [][OnePhase]_vars
    /\ [][last'.op # "collectGarbageIncremental" => incrementalStep' = incrementalStep]_vars
    /\ (incrementalStep > 0) ~> (last.op = "collectGarbageIncremental" /\ incrementalStep = 0)

(* the sweep of a cycle has run, after its nine marking steps *)
C27_Witness ==
    /\ last.op = "collectGarbageIncremental" /\ incrementalStep = 0
    /\ TrackedCells # {}

(* C28: the generations partition the tracked heap: for each cell kind the *)
(* young and the old set are disjoint and their union is the tracked set.  *)
C28_GenerationsPartition ==
    /\ newGenerationObjects \cap oldGenerationObjects = {}
    /\ newGenerationObjects \cup oldGenerationObjects = objects
    /\ newGenerationFunctions \cap oldGenerationFunctions = {}
    /\ newGenerationFunctions \cup oldGenerationFunctions = functions
    /\ newGenerationClasses \cap oldGenerationClasses = {}
    /\ newGenerationClasses \cup oldGenerationClasses = classes

----------------------------------------------------------------------------
(* An incremental cycle over an unchanged heap. The heap holds             *)
(* IncrementalHeap instances; the global x is an array of the first half   *)
(* of them, and no variable or field refers to the others. The program     *)
(* registers the instances between cycles and is idle during a cycle.      *)
IncrementalHeap == 10

InitQuiet ==
    /\ envStore = << [values |-> ("x" :> ArrV(1)), enclosing |-> 0] >>
    /\ objStore = [o \in 1..IncrementalHeap |-> [klass |-> 1, fields |-> EmptyMap]]
    /\ funStore = << >>
    /\ clsStore = << [name |-> "K", superclass |-> 0, methods |-> EmptyMap] >>
    /\ arrStore = << [i \in 1..(IncrementalHeap \div 2) |-> ObjV(i)] >>
    /\ dictStore = << >>
    /\ InterpIdle
    /\ GcIdle
    /\ last = NoOp

RegisterBetweenCycles ==
    /\ incrementalStep = 0
    /\ Cardinality(registered) < IncrementalHeap
    /\ RegisterObject(Cardinality(registered) + 1)

NextQuiet == RegisterBetweenCycles \/ CollectGarbageIncremental

SpecQuiet == InitQuiet /\ [][NextQuiet]_vars

(* C25: after the sweep of an incremental cycle during which the heap and  *)
(* the roots did not change, every tracked instance, function and class is *)
(* reachable from the roots.                                               *)
C25_IncrementalLeavesReachable ==
    (last.op = "collectGarbageIncremental" /\ incrementalStep = 0)
        => TrackedCells \subseteq Reachable

----------------------------------------------------------------------------
(* Loop signals and calls: stop() has a break and skip() a continue at the *)
(* top of the function body, outside every loop of the body.               *)
CallInFor(decl, name) ==
    << VarDecl("t", Str("")), FunctionDecl(decl),
       For("i", OneTwo, Block(<< Note("a"), ExprS(Call0(name)), Note("b") >>)),
       Note("e") >>

CallInWhile(decl, name) ==
    << VarDecl("t", Str("")), VarDecl("n", Num(0)), FunctionDecl(decl),
       While(Binary(Id("n"), "<", Num(2)), Block(<<
           Plus("n", Num(1)), Note("a"), ExprS(Call0(name)), Note("b") >>)),
       Note("e") >>

SignalPrograms == <<
    (* 1: loc t = ""; func stop() {...}                                    *)
    (*    for i in [1, 2] { t += "a"; stop(); t += "b"; } t += "e";        *)
    CallInFor(9, "stop"),
    (* 2: the same with skip() *)
    CallInFor(10, "skip"),
    (* 3: loc t = ""; loc n = 0; func stop() {...}                         *)
    (*    while (n < 2) { n = n + 1; t += "a"; stop(); t += "b"; }         *)
    (*    t += "e";                                                        *)
    CallInWhile(9, "stop"),
    (* 4: the same with skip() *)
    CallInWhile(10, "skip"),
    (* 5: loc t = ""; func stop() {...} stop(); t += "e"; *)
    << VarDecl("t", Str("")), FunctionDecl(9), ExprS(Call0("stop")), Note("e") >>,
    (* 6: loc t = ""; continue; t += "e"; *)
    << VarDecl("t", Str("")), Continue, Note("e") >>
>>

MaxSignalRuns == 3

NextSignals ==
    \E line \in DOMAIN SignalPrograms :
        last.count < MaxSignalRuns /\ Interpret(line, SignalPrograms[line])

SpecSignals == InitInterpreter /\ [][NextSignals]_vars

(* C29: a break or continue raised in a function body outside every loop   *)
(* of the body does not reach a loop of the caller: the caller's loop      *)
(* makes its two iterations unless the run ends with a reported error, and *)
(* when the call returns the iteration goes on after it; and no break or   *)
(* continue leaves interpret as an unhandled signal.                       *)
C29_SignalsStayInFunction ==
    last.op = "interpret" =>
        /\ last.sig \notin {"break", "continue"}
        /\ (last.sig = "normal" /\ last.line \in {1, 3})
               => Global("t") \in {StrV("asbasbe"), StrV("asxbasxbe")}
        /\ (last.sig = "normal" /\ last.line \in {2, 4})
               => Global("t") \in {StrV("akbakbe"), StrV("akxbakxbe")}

----------------------------------------------------------------------------
(* Modules 5 and 6 require each other.                                     *)

(* C30: a require of modules that require each other in a cycle ends       *)
(* without loading a module whose load is still in progress: the inner     *)
(* require is served from the cache or reported as an error, and the call  *)
(* does not go on loading until the process runs out of stack or files.    *)
C30_CyclicRequireTerminates ==
    last.op = "requireModule" =>
        /\ ~ghost.reloaded
        /\ last.sig # "crash"
        /\ last.msg \notin {"Could not open module: " \o ToString(m) : m \in DOMAIN Modules}
====
